---- MODULE Spec2Model ----
(***************************************************************************)
(* Behance Analyzer: the collection pipeline (scraper.py) and its SQLite   *)
(* store (db.py).                                                          *)
(*                                                                         *)
(* Nine specifications share the store operations and the helpers:         *)
(*   SpecDb    the store driven directly: any sequence of upsert_project,  *)
(*             upsert_author and insert_project_tags calls;                *)
(*   SpecRace  the upsert calls of two processes, each a SELECT and a      *)
(*             write on a connection of its own;                           *)
(*   Spec      one run of run_full_scrape over the primary query, with an  *)
(*             allowlist of tracked projects, one step per navigation and  *)
(*             per committed write;                                        *)
(*   SpecRuns  repeated runs, over one or two queries, on a site whose     *)
(*             listings show a single card;                                *)
(*   SpecQueries one run over two queries, on a site whose listings have   *)
(*             one page of up to two cards;                                *)
(*   SpecParse one call of _parse_number on a bounded string;              *)
(*   SpecDate  _parse_behance_date on the two sentences of a date;         *)
(*   SpecProfile one call of scrape_author_profile on a profile page;      *)
(*   SpecPortfolio one run against a portfolio that is a ring of pages,    *)
(*             with the fairness of the portfolio loop.                    *)
(*                                                                         *)
(* A nullable value is a sequence: Null == <<>> is SQL NULL / Python None, *)
(* <<v>> is the value v.  A Python dict is a function from its keys.       *)
(***************************************************************************)
EXTENDS Integers, Sequences, FiniteSets, TLC

VARIABLES
    \* ---- the store (db.py, init_db): one sequence of rows per table,
    \* ---- a row's id is its index (INTEGER PRIMARY KEY AUTOINCREMENT)
    snapshots,          \* [query, total_collected]
    authors,            \* [username, f, first_seen, last_seen]
    author_snapshots,   \* [author_id, snapshot_id, stats]
    projects,           \* [behance_id, f, first_seen, last_seen]
    project_tags,       \* [project_id, tag_name]
    search_results,     \* [snapshot_id, project_id, position]
    db_error,           \* the exception a store call raised, or "none"
    tracked_snapshots,  \* [timestamp, behance_id, views,
                        \*  position_infografika, position_design_cards]
    \* ---- SpecDb only: the calls made so far, in order
    calls,
    \* ---- run_full_scrape (scraper.py 762-916): one process, its position
    \* ---- and its local variables
    pc,                 \* the step the run is at
    run,                \* number of runs started; also the clock of the run
    queries,            \* the queries of this run
    qi,                 \* index into queries of the query being crawled
    snapshot_id,        \* snapshot of the query being crawled
    page_num,           \* scrape_search_results / scrape_my_projects: page index
    position,           \* scrape_search_results: position counter
    results,            \* scrape_search_results: records collected so far
    page_cards,         \* the cards of the listing page last loaded
    last_nav,           \* the goto attempts of the last navigation
    rested,             \* a delay has elapsed since the last goto of the run
    all_search_data,    \* per query, in order: [query, snapshot_id, results]
    my_projects,        \* the records scrape_my_projects returned
    all_projects,       \* in insertion order: [pid, q, k], a reference to the
                        \* record all_search_data[q].results[k] (q = 0:
                        \* my_projects[k]) that seeded the project
    all_authors,        \* in insertion order: the author dicts
    idx,                \* index of the loop of the current phase
    sk,                 \* step 6: index into the results of query idx
    author_db_ids,      \* username -> authors.id
    project_db_ids,     \* behance_id -> projects.id
    \* ---- the environment of the runs
    world,              \* [cards, pages, lists, tracked]: the most cards a
                        \* listing page of the site shows, the most pages a
                        \* listing has, the query lists the scheduler runs the
                        \* pipeline with, config.TRACKED_PROJECTS
    \* ---- SpecRace only: the upsert calls of processes running at the same
    \* ---- time, each with its own connection
    conns,              \* per process: [pc, op, data, now, row, left]
    \* ---- SpecParse and SpecDate only: one call of a parsing helper
    pure_call           \* [fn, arg, state, out]

\* what steps 1 to 6 of a run and the store calls of SpecDb leave alone
env_vars == <<world, conns, tracked_snapshots, pure_call>>

store_vars == <<snapshots, authors, author_snapshots, projects, project_tags,
                search_results, db_error>>

run_vars == <<pc, run, queries, qi, snapshot_id, page_num, position, results,
              page_cards, last_nav, rested, all_search_data, my_projects,
              all_projects,
              all_authors, idx, sk, author_db_ids, project_db_ids, env_vars>>

Null == <<>>

\* no parsing helper is called in this specification
NoCall == [fn |-> "", arg |-> Null, state |-> "none", out |-> Null]

\* dict.get(k) and dict.get(k, default)
Get(d, k) == IF k \in DOMAIN d THEN d[k] ELSE Null

GetD(d, k, dflt) == IF k \in DOMAIN d THEN d[k] ELSE <<dflt>>

\* SQL COALESCE(x, y)
COALESCE(x, y) == IF x # Null THEN x ELSE y

\* str.strip() on the tag alphabet of the model and on a text of blanks
strip(s) ==
    IF s = " a" THEN "a" ELSE IF s = "b " THEN "b" ELSE IF s = " " THEN "" ELSE s

\* the columns of projects that upsert_project writes (db.py 262-271); the
\* model keeps four of the 27, the code treats all of them alike
ProjectFields == {"title", "published_date", "author_id", "is_my_project"}

\* the columns of authors that upsert_author writes; has_pro and
\* profile_completeness stand for the five columns inserted with data.get(k, 0)
AuthorFields == {"display_name", "has_pro", "profile_completeness"}

AuthorInsertDefaultZero == {"has_pro", "profile_completeness"}

\* SELECT id FROM t WHERE key = ? ; fetchone(): 0 when there is no row
FindProject(rows, bid) ==
    IF \E i \in 1..Len(rows) : rows[i].behance_id = bid
    THEN CHOOSE i \in 1..Len(rows) :
            /\ rows[i].behance_id = bid
            /\ \A j \in 1..(i - 1) : rows[j].behance_id # bid
    ELSE 0

FindAuthor(rows, uname) ==
    IF \E i \in 1..Len(rows) : rows[i].username = uname
    THEN CHOOSE i \in 1..Len(rows) :
            /\ rows[i].username = uname
            /\ \A j \in 1..(i - 1) : rows[j].username # uname
    ELSE 0

\* ---- faulty variants of the store operations, which the properties below
\* ---- must tell from the operations themselves
upsert_project_overwrite(rows, data, now) ==
    LET row == FindProject(rows, data["behance_id"]) IN
    IF row # 0
    THEN [rows EXCEPT ![row] =
            [@ EXCEPT !.f = [fld \in ProjectFields |-> Get(data, fld)],
                      !.last_seen = now]]
    ELSE Append(rows, [behance_id |-> data["behance_id"],
                       f |-> [fld \in ProjectFields |-> Get(data, fld)],
                       first_seen |-> now, last_seen |-> now])

upsert_author_overwrite(rows, data, now) ==
    LET row == FindAuthor(rows, data["username"]) IN
    IF row # 0
    THEN [rows EXCEPT ![row] =
            [@ EXCEPT !.f = [fld \in AuthorFields |-> Get(data, fld)],
                      !.last_seen = now]]
    ELSE Append(rows, [username |-> data["username"],
                       f |-> [fld \in AuthorFields |->
                                 IF fld \in AuthorInsertDefaultZero
                                 THEN GetD(data, fld, 0) ELSE Get(data, fld)],
                       first_seen |-> now, last_seen |-> now])

\* faulty variant: the INSERT without the SELECT before it
upsert_project_always_insert(rows, data, now) ==
    Append(rows, [behance_id |-> data["behance_id"],
                  f |-> [fld \in ProjectFields |-> Get(data, fld)],
                  first_seen |-> now, last_seen |-> now])

insert_project_tags_no_unique(rows, project_id, tags) ==
    rows \o [i \in 1..Len(tags) |->
                [project_id |-> project_id, tag_name |-> strip(tags[i])]]

\* ---- the store operations ----

\* db.upsert_project: the new projects table
upsert_project(rows, data, now) ==
    LET row == FindProject(rows, data["behance_id"]) IN
    IF row # 0
    THEN [rows EXCEPT ![row] =
            [@ EXCEPT !.f = [fld \in ProjectFields |->
                                COALESCE(Get(data, fld), @[fld])],
                      !.last_seen = now]]
    ELSE Append(rows, [behance_id |-> data["behance_id"],
                       f |-> [fld \in ProjectFields |-> Get(data, fld)],
                       first_seen |-> now, last_seen |-> now])

\* db.upsert_author: the new authors table
upsert_author(rows, data, now) ==
    LET row == FindAuthor(rows, data["username"]) IN
    IF row # 0
    THEN [rows EXCEPT ![row] =
            [@ EXCEPT !.f = [fld \in AuthorFields |->
                                COALESCE(Get(data, fld), @[fld])],
                      !.last_seen = now]]
    ELSE Append(rows, [username |-> data["username"],
                       f |-> [fld \in AuthorFields |->
                                 IF fld \in AuthorInsertDefaultZero
                                 THEN GetD(data, fld, 0) ELSE Get(data, fld)],
                       first_seen |-> now, last_seen |-> now])

\* INSERT OR IGNORE of one tag under UNIQUE(project_id, tag_name)
InsertOrIgnoreTag(rows, project_id, tag) ==
    IF \E i \in 1..Len(rows) :
          rows[i].project_id = project_id /\ rows[i].tag_name = tag
    THEN rows
    ELSE Append(rows, [project_id |-> project_id, tag_name |-> tag])

RECURSIVE InsertTagsFrom(_, _, _, _)
InsertTagsFrom(rows, project_id, tags, i) ==
    IF i > Len(tags) THEN rows
    ELSE InsertTagsFrom(InsertOrIgnoreTag(rows, project_id, strip(tags[i])),
                        project_id, tags, i + 1)

\* db.insert_project_tags: the new project_tags table
insert_project_tags(rows, project_id, tags) ==
    InsertTagsFrom(rows, project_id, tags, 1)

\* a violated UNIQUE(project_id, tag_name) raises sqlite3.IntegrityError
TagsUniqueViolated(rows) ==
    \E i, j \in 1..Len(rows) :
        i # j /\ rows[i].project_id = rows[j].project_id
              /\ rows[i].tag_name = rows[j].tag_name

\* ------------------------------------------------------------------------
\* SpecDb: the store called directly
\* ------------------------------------------------------------------------

\* bounds of SpecDb
MaxCalls == 3

DbPids == {"p1", "p2"}

DbUsers == {"a1", "a2"}

\* scraper.py 252-256: the title of a card, from the title attribute of its
\* gallery link or else from the text of its Title element; "" without both
CardTitle(title_attr, title_el) ==
    LET title == IF title_attr # Null THEN title_attr[1] ELSE ""
    IN IF title # "" THEN title
       ELSE IF title_el # Null THEN strip(title_el[1]) ELSE title

\* scraper.py 262-267: the author name of a card, None without author link
CardAuthorName(author_el) ==
    IF author_el = Null THEN Null ELSE <<strip(author_el[1])>>

\* the titles and author names the cards of the site give
CardTitles ==
    { CardTitle(a, e) : a \in {Null, <<"">>, <<"T1">>, <<"T2">>},
                        e \in {Null, <<" ">>, <<"T1">>} }

CardAuthorNames == { CardAuthorName(e) : e \in {Null, <<" ">>, <<"N1">>} }

\* the dicts handed to upsert_project: a card or portfolio record, with or
\* without a title and the is_my_project key
ProjectObservations ==
    { [behance_id |-> b] : b \in DbPids }
    \cup { [behance_id |-> b, title |-> <<t>>] : b \in DbPids, t \in CardTitles }
    \cup { [behance_id |-> b, is_my_project |-> <<1>>] : b \in DbPids }
    \cup { [behance_id |-> b, title |-> <<t>>, is_my_project |-> <<1>>] :
              b \in DbPids, t \in CardTitles }

\* the dicts handed to upsert_author: the seed of a card, a scraped profile,
\* a dict carrying an explicit None
AuthorObservations ==
    { [username |-> u] : u \in DbUsers }
    \cup { [username |-> u, display_name |-> n] : u \in DbUsers, n \in CardAuthorNames }
    \cup { [username |-> u, display_name |-> <<"N2">>, has_pro |-> <<1>>,
            profile_completeness |-> <<15>>] : u \in DbUsers }
    \cup { [username |-> u, has_pro |-> Null] : u \in DbUsers }

TagLists == { <<"a">>, <<" a", "a">>, <<"b ", "a">> }

InitStore ==
    /\ snapshots = <<>>
    /\ authors = <<>>
    /\ author_snapshots = <<>>
    /\ projects = <<>>
    /\ project_tags = <<>>
    /\ search_results = <<>>
    /\ db_error = "none"
    /\ tracked_snapshots = <<>>

\* no run in progress
InitRun ==
    /\ pc = "idle"
    /\ run = 0
    /\ queries = <<>>
    /\ qi = 0
    /\ snapshot_id = 0
    /\ page_num = 0
    /\ position = 0
    /\ results = <<>>
    /\ page_cards = <<>>
    /\ last_nav = <<>>
    /\ rested = TRUE
    /\ all_search_data = <<>>
    /\ my_projects = <<>>
    /\ all_projects = <<>>
    /\ all_authors = <<>>
    /\ idx = 0
    /\ sk = 0
    /\ author_db_ids = <<>>
    /\ project_db_ids = <<>>

InitDb ==
    /\ InitStore
    /\ InitRun
    /\ world = [cards |-> 0, pages |-> 0, lists |-> {}, tracked |-> <<>>]
    /\ calls = <<>>
    /\ conns = <<>>
    /\ pure_call = NoCall

\* datetime.utcnow(): the clock of the store calls, which every committed
\* call advances
DbNow == Len(calls) + 1

DbUpsertProject ==
    /\ Len(calls) < MaxCalls
    /\ \E data \in ProjectObservations :
          /\ projects' = upsert_project(projects, data, DbNow)
          /\ calls' = Append(calls, [op |-> "upsert_project", data |-> data])
    /\ db_error' = "none"
    /\ UNCHANGED <<snapshots, authors, author_snapshots, project_tags, search_results, run_vars>>

DbUpsertAuthor ==
    /\ Len(calls) < MaxCalls
    /\ \E data \in AuthorObservations :
          /\ authors' = upsert_author(authors, data, DbNow)
          /\ calls' = Append(calls, [op |-> "upsert_author", data |-> data])
    /\ db_error' = "none"
    /\ UNCHANGED <<snapshots, author_snapshots, projects, project_tags, search_results, run_vars>>

\* the rows and the error of one insert_project_tags call: the table keeps
\* UNIQUE(project_id, tag_name); a statement violating it raises and the
\* call commits nothing
TagsAfter(rows, project_id, tags) ==
    LET new == insert_project_tags(rows, project_id, tags) IN
    IF TagsUniqueViolated(new)
    THEN [rows |-> rows, error |-> "IntegrityError"]
    ELSE [rows |-> new, error |-> "none"]

DbInsertProjectTags ==
    /\ Len(calls) < MaxCalls
    /\ \E project_id \in 1..Len(projects), tags \in TagLists :
          LET r == TagsAfter(project_tags, project_id, tags) IN
          /\ project_tags' = r.rows
          /\ db_error' = r.error
          /\ calls' = Append(calls, [op |-> "insert_project_tags",
                                     project_id |-> project_id, tags |-> tags])
    /\ UNCHANGED <<snapshots, authors, author_snapshots, projects, search_results, run_vars>>

vars == <<snapshots, authors, author_snapshots, projects, project_tags,
          search_results, db_error, calls, run_vars>>

NextDb ==
    \/ DbUpsertProject
    \/ DbUpsertAuthor
    \/ DbInsertProjectTags

SpecDb == InitDb /\ [][NextDb]_vars

\* ------------------------------------------------------------------------
\* SpecRace: upsert calls of processes that run at the same time
\* ------------------------------------------------------------------------

\* upsert calls one process makes
MaxRaceCalls == 2

\* two collection runs, each a process with connections of its own
RaceProcs == {1, 2}

\* both runs observe the same project and the same author
RaceProjectObservations == { d \in ProjectObservations : d["behance_id"] = "p1" }

RaceAuthorObservations == { d \in AuthorObservations : d["username"] = "a1" }

InitRace ==
    /\ InitStore
    /\ InitRun
    /\ world = [cards |-> 0, pages |-> 0, lists |-> {}, tracked |-> <<>>]
    /\ calls = <<>>
    /\ conns = [p \in RaceProcs |->
                  [pc |-> "idle", op |-> "", data |-> <<>>, now |-> 0,
                   row |-> 0, left |-> MaxRaceCalls]]
    /\ pure_call = NoCall

race_unchanged == <<pc, run, queries, qi, snapshot_id, page_num, position,
                    results, page_cards, last_nav, rested, all_search_data,
                    my_projects, all_projects, all_authors, idx, sk,
                    author_db_ids, project_db_ids, world, tracked_snapshots,
                    pure_call>>

\* upsert_project, 251-254, and upsert_author, 178-181: the call opens its
\* connection and reads the clock, before its SELECT
RaceCall(p) ==
    /\ conns[p].pc = "idle"
    /\ conns[p].left > 0
    /\ \E op \in {"upsert_project", "upsert_author"} :
          \E data \in IF op = "upsert_project" THEN RaceProjectObservations
                                               ELSE RaceAuthorObservations :
             conns' = [conns EXCEPT ![p] =
                         [pc |-> "called", op |-> op, data |-> data,
                          now |-> DbNow, row |-> 0, left |-> conns[p].left]]
    /\ UNCHANGED <<store_vars, calls, race_unchanged>>

\* upsert_project, 256-260: the SELECT, which opens no transaction
RaceSelectProject(p) ==
    /\ conns[p].pc = "called"
    /\ conns[p].op = "upsert_project"
    /\ conns' = [conns EXCEPT
                    ![p].pc = "selected",
                    ![p].row = FindProject(projects, conns[p].data["behance_id"])]
    /\ UNCHANGED <<store_vars, calls, race_unchanged>>

\* upsert_author, 183-184
RaceSelectAuthor(p) ==
    /\ conns[p].pc = "called"
    /\ conns[p].op = "upsert_author"
    /\ conns' = [conns EXCEPT
                    ![p].pc = "selected",
                    ![p].row = FindAuthor(authors, conns[p].data["username"])]
    /\ UNCHANGED <<store_vars, calls, race_unchanged>>

\* the INSERT of a process that selected no row meets the row another
\* process has committed since: UNIQUE(behance_id) / UNIQUE(username)
RaceConflict(p) ==
    /\ conns[p].row = 0
    /\ IF conns[p].op = "upsert_project"
       THEN FindProject(projects, conns[p].data["behance_id"]) # 0
       ELSE FindAuthor(authors, conns[p].data["username"]) # 0

RaceDone(p) ==
    [conns EXCEPT ![p] = [pc |-> "idle", op |-> "", data |-> <<>>, now |-> 0,
                          row |-> 0, left |-> conns[p].left - 1]]

\* upsert_project, 273-298: UPDATE by the selected id, or INSERT, and commit
RaceWriteProject(p) ==
    /\ conns[p].pc = "selected"
    /\ conns[p].op = "upsert_project"
    /\ ~RaceConflict(p)
    /\ projects' = upsert_project(projects, conns[p].data, conns[p].now)
    /\ calls' = Append(calls, [op |-> "upsert_project", data |-> conns[p].data])
    /\ conns' = RaceDone(p)
    /\ UNCHANGED <<snapshots, authors, author_snapshots, project_tags,
                   search_results, db_error, race_unchanged>>

\* upsert_author, 186-231
RaceWriteAuthor(p) ==
    /\ conns[p].pc = "selected"
    /\ conns[p].op = "upsert_author"
    /\ ~RaceConflict(p)
    /\ authors' = upsert_author(authors, conns[p].data, conns[p].now)
    /\ calls' = Append(calls, [op |-> "upsert_author", data |-> conns[p].data])
    /\ conns' = RaceDone(p)
    /\ UNCHANGED <<snapshots, author_snapshots, projects, project_tags,
                   search_results, db_error, race_unchanged>>

\* the INSERT raises sqlite3.IntegrityError; upsert_* does not catch it and
\* neither does run_full_scrape (866, 883): the run of this process ends
RaceIntegrityError(p) ==
    /\ conns[p].pc = "selected"
    /\ RaceConflict(p)
    /\ conns' = [conns EXCEPT ![p].pc = "failed"]
    /\ db_error' = "IntegrityError"
    /\ UNCHANGED <<snapshots, authors, author_snapshots, projects,
                   project_tags, search_results, calls, race_unchanged>>

NextRace ==
    \E p \in RaceProcs :
       \/ RaceCall(p)
       \/ RaceSelectProject(p)
       \/ RaceSelectAuthor(p)
       \/ RaceWriteProject(p)
       \/ RaceWriteAuthor(p)
       \/ RaceIntegrityError(p)

SpecRace == InitRace /\ [][NextRace]_vars

\* ------------------------------------------------------------------------
\* Spec: run_full_scrape
\* ------------------------------------------------------------------------

\* ---- the remaining store operations ----

\* db.create_snapshot: the new snapshots table; the new row's id is its index
create_snapshot(rows, query, now) ==
    Append(rows, [query |-> query, total_collected |-> 0, timestamp |-> now])

\* faulty variant: the UPDATE without its WHERE clause
update_snapshot_count_every_row(rows, id, count) ==
    [i \in 1..Len(rows) |-> [rows[i] EXCEPT !.total_collected = count]]

\* db.update_snapshot_count
update_snapshot_count(rows, id, count) ==
    [rows EXCEPT ![id].total_collected = count]

\* faulty variant: the row references the first snapshot of the store
upsert_author_snapshot_first_row(rows, author_id, snap_id, stats) ==
    Append(rows, [author_id |-> author_id, snapshot_id |-> 1,
                  total_views |-> IF "total_views" \in DOMAIN stats
                                  THEN stats["total_views"] ELSE 0])

\* stats.get(k, 0)
StatGet(stats, k) == IF k \in DOMAIN stats THEN stats[k] ELSE 0

\* db.upsert_author_snapshot: a plain INSERT
upsert_author_snapshot(rows, author_id, snap_id, stats) ==
    Append(rows, [author_id |-> author_id, snapshot_id |-> snap_id,
                  total_views |-> StatGet(stats, "total_views")])

\* faulty variant: one row per snapshot and project (INSERT OR IGNORE under a
\* UNIQUE(snapshot_id, project_id) the table does not have)
insert_search_result_once(rows, snap_id, data) ==
    IF \E i \in 1..Len(rows) : /\ rows[i].snapshot_id = snap_id
                               /\ rows[i].project_id = data["project_id"]
    THEN rows
    ELSE Append(rows, [snapshot_id |-> snap_id, project_id |-> data["project_id"],
                       position |-> data["position"],
                       is_featured |-> data["is_featured"]])

\* db.insert_search_result: a plain INSERT
insert_search_result(rows, snap_id, data) ==
    Append(rows, [snapshot_id |-> snap_id, project_id |-> data["project_id"],
                  position |-> data["position"],
                  is_featured |-> data["is_featured"]])

\* ---- bounds and configuration of the model ----

\* number of runs of SpecRuns
MaxRuns == 2

\* cards on one listing page: of Spec, of SpecRuns
MaxCardsPerPage == 3

RunsCardsPerPage == 1

\* pages of one listing of SpecRuns
RunsPages == 1

\* cards on one listing page and pages of one listing of SpecQueries
QueriesCardsPerPage == 2

QueriesPages == 1

\* config.PAGES_PER_QUERY (5 in config.py) and config.PROJECTS_PER_QUERY (100
\* in config.py), scaled down
PAGES_PER_QUERY == 2

PROJECTS_PER_QUERY == 4

\* config.MY_USERNAME
MY_USERNAME == "me"

\* config.TRACKED_PROJECTS as the repository ships it
TRACKED_PROJECTS == <<>>

\* config.TRACKED_PROJECTS as the operator fills it in: two published
\* projects and an entry whose behance_id is still empty
TrackedEntries ==
    << [label |-> "A", behance_id |-> "p1"],
       [label |-> "B", behance_id |-> ""],
       [label |-> "C", behance_id |-> "p2"] >>

\* the two queries _track_experiment_projects looks positions up for
\* (query_map, 993): the first and the second primary query
InfografikaQuery == "q1"

DesignCardsQuery == "q2"

\* run_full_scrape(queries): config.SEARCH_QUERIES primary, or primary and
\* secondary
PrimaryQueries == <<"q1">>

QueryLists == { PrimaryQueries, <<"q1", "q2">> }

\* what the site shows: a listing card is a card without gallery link
\* ("nolink"), a card whose parsing raises ("error"), or a parseable card of
\* project p1 (by a1) or p2 (by the operator)
CardKinds ==
    { [kind |-> "nolink", pid |-> "", author |-> Null],
      [kind |-> "error", pid |-> "", author |-> Null],
      [kind |-> "ok", pid |-> "p1", author |-> <<"a1">>],
      [kind |-> "ok", pid |-> "p2", author |-> <<MY_USERNAME>>] }

PageContents ==
    UNION { [1..n -> CardKinds] : n \in 1..world.cards }

\* the title a card, the portfolio or the page of a project shows
TitleOf(pid) == IF pid = "p1" THEN "T1" ELSE "T2"

\* the display name the profile page shows for an author
NameOf(uname) == IF uname = "a1" THEN "N1" ELSE "Me"

\* the author's name as a card shows it: the text of the author link, which
\* the site abbreviates on the cards below the first
NameOnCard(uname, pos) == IF pos = 1 THEN NameOf(uname) ELSE "aka"

\* ---- scrape_search_results ----

\* faulty variant: the position counted from zero
_parse_search_card_zero_based(card, pos) ==
    IF card.kind # "ok" THEN <<>>
    ELSE << [position |-> pos - 1,
             behance_id |-> card.pid,
             title |-> <<TitleOf(card.pid)>>,
             url |-> <<"url">>,
             author_username |-> card.author,
             author_name |-> IF card.author = Null THEN Null
                             ELSE <<NameOnCard(card.author[1], pos)>>,
             is_featured |-> <<0>>] >>

\* _parse_search_card: the list holding the record, empty for None
_parse_search_card(card, pos) ==
    IF card.kind = "nolink" THEN <<>>          \* 244-250: return None
    ELSE IF card.kind = "error" THEN <<>>      \* 348-350: except: return None
    ELSE << [position |-> pos,
             behance_id |-> card.pid,
             title |-> <<TitleOf(card.pid)>>,
             url |-> <<"url">>,
             author_username |-> card.author,
             author_name |-> IF card.author = Null THEN Null
                             ELSE <<NameOnCard(card.author[1], pos)>>,
             is_featured |-> <<0>>] >>

\* faulty variant: a discarded card gives its position to the next card
RECURSIVE CardLoop_reassign(_, _, _, _, _)
CardLoop_reassign(cards, i, pos, res, max_projects) ==
    IF i > Len(cards) THEN [position |-> pos, results |-> res]
    ELSE IF pos + 1 > max_projects THEN [position |-> pos + 1, results |-> res]
    ELSE LET rec == _parse_search_card(cards[i], pos + 1)
         IN CardLoop_reassign(cards, i + 1,
                              IF rec = <<>> THEN pos ELSE pos + 1,
                              res \o rec, max_projects)

\* the loop over the cards of one page (222-229): the position counter and
\* the results after it
RECURSIVE CardLoop(_, _, _, _, _)
CardLoop(cards, i, pos, res, max_projects) ==
    IF i > Len(cards) THEN [position |-> pos, results |-> res]
    ELSE IF pos + 1 > max_projects THEN [position |-> pos + 1, results |-> res]
    ELSE CardLoop(cards, i + 1, pos + 1,
                  res \o _parse_search_card(cards[i], pos + 1), max_projects)

\* 205, 367, 552, 698, 750, 939: asyncio.sleep(_rand_delay()) follows the
\* goto that returned; no delay follows a goto that raised
DelayFollows(nav) == nav[Len(nav)].ok

\* what a navigation does, in order: one goto per attempt, and the delay
\* after the goto that returned
NavEvents(nav) ==
    [i \in 1..Len(nav) |-> "goto"]
       \o (IF nav # <<>> /\ DelayFollows(nav) THEN <<"sleep">> ELSE <<>>)

NetworkIdleOk == << [wait |-> "networkidle", ok |-> TRUE] >>

NetworkIdleTimeout == << [wait |-> "networkidle", ok |-> FALSE] >>

RetryOk == << [wait |-> "networkidle", ok |-> FALSE],
              [wait |-> "domcontentloaded", ok |-> TRUE] >>

RetryTimeout == << [wait |-> "networkidle", ok |-> FALSE],
                   [wait |-> "domcontentloaded", ok |-> FALSE] >>

\* where run_full_scrape goes when an exception leaves it
Aborted == "aborted"

\* the locals of run_full_scrape are gone once an exception or a kill has
\* ended it
LocalsGone ==
    /\ queries' = <<>>
    /\ qi' = 0
    /\ snapshot_id' = 0
    /\ page_num' = 0
    /\ position' = 0
    /\ results' = <<>>
    /\ page_cards' = <<>>
    /\ all_search_data' = <<>>
    /\ my_projects' = <<>>
    /\ all_projects' = <<>>
    /\ all_authors' = <<>>
    /\ idx' = 0
    /\ sk' = 0
    /\ author_db_ids' = <<>>
    /\ project_db_ids' = <<>>

\* the pc once the listing loop of the query has ended
AfterListing == "count"

listing_unchanged == <<snapshots, authors, author_snapshots, projects,
                       project_tags, search_results, db_error, calls, run,
                       queries, qi, snapshot_id, all_search_data, my_projects,
                       all_projects, all_authors, idx, sk, author_db_ids,
                       project_db_ids, env_vars>>

store_unchanged == <<snapshots, authors, author_snapshots, projects,
                     project_tags, search_results, db_error, calls>>

\* 194-200: a later iteration finds no Next link, or one without href: break
ListingNoNext ==
    /\ pc = "listing"
    /\ page_num > 0
    /\ pc' = AfterListing
    /\ last_nav' = <<>>
    /\ rested' = rested
    /\ UNCHANGED <<page_num, position, results, page_cards>>
    /\ UNCHANGED listing_unchanged

\* 192, 203: page.goto(wait_until="networkidle") raises PwTimeout; nothing
\* catches it in scrape_search_results or run_full_scrape
ListingGotoTimeout ==
    /\ pc = "listing"
    /\ page_num < world.pages
    /\ last_nav' = NetworkIdleTimeout
    /\ rested' = DelayFollows(last_nav')
    /\ pc' = Aborted
    /\ LocalsGone
    /\ UNCHANGED <<run, env_vars>>
    /\ UNCHANGED store_unchanged

\* 208-212: the page loaded but no card appears within 15 s: break
ListingNoCards ==
    /\ pc = "listing"
    /\ page_num < world.pages
    /\ last_nav' = NetworkIdleOk
    /\ rested' = DelayFollows(last_nav')
    /\ page_cards' = <<>>
    /\ pc' = AfterListing
    /\ UNCHANGED <<page_num, position, results>>
    /\ UNCHANGED listing_unchanged

\* faulty variant: a loop that runs for as long as the site has pages
LastPage_no_cap(n) == FALSE

\* 190: for page_num in range(config.PAGES_PER_QUERY): iteration n is the last
LastPage(n) == n + 1 >= PAGES_PER_QUERY

\* 214-234: the page loaded with cards; every card takes the next position
ListingCards ==
    /\ pc = "listing"
    /\ page_num < world.pages
    /\ \E cards \in PageContents :
          LET r == CardLoop(cards, 1, position, results, PROJECTS_PER_QUERY) IN
          /\ page_cards' = cards
          /\ position' = r.position
          /\ results' = r.results
          /\ page_num' = page_num + 1
          /\ pc' = IF r.position >= PROJECTS_PER_QUERY THEN AfterListing
                   ELSE IF LastPage(page_num) THEN AfterListing
                   ELSE "listing"
    /\ last_nav' = NetworkIdleOk
    /\ rested' = DelayFollows(last_nav')
    /\ UNCHANGED listing_unchanged

\* ---- run_full_scrape, step 1 ----

\* 795: db.create_snapshot, then scrape_search_results starts
CreateSnapshot ==
    /\ pc = "query"
    /\ snapshots' = create_snapshot(snapshots, queries[qi], run)
    /\ snapshot_id' = Len(snapshots) + 1
    /\ page_num' = 0
    /\ position' = 0
    /\ results' = <<>>
    /\ page_cards' = <<>>
    /\ pc' = "listing"
    /\ last_nav' = <<>>
    /\ rested' = rested
    /\ UNCHANGED <<authors, author_snapshots, projects, project_tags,
                   search_results, db_error, calls, run, queries, qi,
                   all_search_data, my_projects, all_projects, all_authors,
                   idx, sk, author_db_ids, project_db_ids, env_vars>>

HasProject(aprojects, pid) == \E i \in 1..Len(aprojects) : aprojects[i].pid = pid

HasAuthor(aauthors, uname) ==
    \E i \in 1..Len(aauthors) : aauthors[i]["username"] = uname

\* faulty variant: a later card of the same project replaces the seed
RECURSIVE SeedProjects_last_wins(_, _, _, _)
SeedProjects_last_wins(res, k, q, aprojects) ==
    IF k > Len(res) THEN aprojects
    ELSE SeedProjects_last_wins(res, k + 1, q,
            IF HasProject(aprojects, res[k]["behance_id"])
            THEN [i \in 1..Len(aprojects) |->
                    IF aprojects[i].pid = res[k]["behance_id"]
                    THEN [pid |-> res[k]["behance_id"], q |-> q, k |-> k]
                    ELSE aprojects[i]]
            ELSE Append(aprojects, [pid |-> res[k]["behance_id"], q |-> q, k |-> k]))

\* 798-809: the records of the query seed all_projects and all_authors
RECURSIVE SeedProjects(_, _, _, _)
SeedProjects(res, k, q, aprojects) ==
    IF k > Len(res) THEN aprojects
    ELSE SeedProjects(res, k + 1, q,
            IF HasProject(aprojects, res[k]["behance_id"]) THEN aprojects
            ELSE Append(aprojects, [pid |-> res[k]["behance_id"], q |-> q, k |-> k]))

RECURSIVE SeedAuthors(_, _, _)
SeedAuthors(res, k, aauthors) ==
    IF k > Len(res) THEN aauthors
    ELSE LET uname == res[k]["author_username"] IN
         SeedAuthors(res, k + 1,
            IF uname # Null /\ ~HasAuthor(aauthors, uname[1])
            THEN Append(aauthors, [username |-> uname[1],
                                   display_name |-> res[k]["author_name"]])
            ELSE aauthors)

\* 798-813: the loop over the results, all_search_data[query] and
\* db.update_snapshot_count
FinishQuery ==
    /\ pc = "count"
    /\ LET tagged == [k \in 1..Len(results) |->
                        [snapshot_id |-> snapshot_id, query |-> queries[qi]]
                            @@ results[k]]
       IN /\ all_search_data' = Append(all_search_data,
                 [query |-> queries[qi], snapshot_id |-> snapshot_id,
                  results |-> tagged])
          /\ all_projects' = SeedProjects(tagged, 1, qi, all_projects)
          /\ all_authors' = SeedAuthors(tagged, 1, all_authors)
    /\ snapshots' = update_snapshot_count(snapshots, snapshot_id, Len(results))
    /\ IF qi < Len(queries)
       THEN qi' = qi + 1 /\ pc' = "query"
       ELSE qi' = qi /\ pc' = "portfolio"
    \* the locals of scrape_search_results are gone
    /\ page_num' = 0
    /\ position' = 0
    /\ results' = <<>>
    /\ page_cards' = <<>>
    /\ last_nav' = <<>>
    /\ rested' = rested
    /\ UNCHANGED <<authors, author_snapshots, projects, project_tags,
                   search_results, db_error, calls, run, queries, snapshot_id,
                   my_projects, idx, sk, author_db_ids, project_db_ids,
                   env_vars>>

\* ---- the records shared between all_projects and the result lists ----

\* the record a reference of all_projects points at
DerefIn(asd, my, ref) ==
    IF ref.q = 0 THEN my[ref.k] ELSE asd[ref.q].results[ref.k]

Deref(ref) == DerefIn(all_search_data, my_projects, ref)

\* dict.update(upd) on the record a reference points at
UpdateSearchData(asd, ref, upd) ==
    IF ref.q = 0 THEN asd
    ELSE [asd EXCEPT ![ref.q].results[ref.k] = upd @@ @]

UpdateMyProjects(my, ref, upd) ==
    IF ref.q = 0 THEN [my EXCEPT ![ref.k] = upd @@ @] ELSE my

RefOf(aprojects, pid) ==
    aprojects[CHOOSE i \in 1..Len(aprojects) : aprojects[i].pid = pid]

\* ---- scrape_my_projects and run_full_scrape, step 2 ----

\* the gallery links one page of the operator's portfolio shows
PortfolioPages == { <<>>, <<"p2">> }

\* 707-740: the records of the links not seen before
RECURSIVE NewMine(_, _, _)
NewMine(links, i, my) ==
    IF i > Len(links) THEN my
    ELSE NewMine(links, i + 1,
            IF \E j \in 1..Len(my) : my[j]["behance_id"] = links[i] THEN my
            ELSE Append(my, [behance_id |-> links[i],
                             title |-> <<TitleOf(links[i])>>,
                             url |-> <<"url">>,
                             is_my_project |-> <<1>>]))

\* 820-831: the portfolio records enter all_projects, or mark the record
\* already there
RECURSIVE MergeMineProjects(_, _, _)
MergeMineProjects(my, k, aprojects) ==
    IF k > Len(my) THEN aprojects
    ELSE MergeMineProjects(my, k + 1,
            IF HasProject(aprojects, my[k]["behance_id"]) THEN aprojects
            ELSE Append(aprojects, [pid |-> my[k]["behance_id"], q |-> 0, k |-> k]))

RECURSIVE MergeMineMarks(_, _, _, _)
MergeMineMarks(my, k, aprojects, asd) ==
    IF k > Len(my) THEN asd
    ELSE MergeMineMarks(my, k + 1, aprojects,
            IF HasProject(aprojects, my[k]["behance_id"])
            THEN UpdateSearchData(asd, RefOf(aprojects, my[k]["behance_id"]),
                                  [is_my_project |-> <<1>>])
            ELSE asd)

\* 833-834
AddMyUsername(aauthors) ==
    IF HasAuthor(aauthors, MY_USERNAME) THEN aauthors
    ELSE Append(aauthors, [username |-> MY_USERNAME])

\* 697, 749: page.goto raises PwTimeout; nothing catches it
PortfolioGotoTimeout ==
    /\ pc = "portfolio"
    /\ last_nav' = NetworkIdleTimeout
    /\ rested' = DelayFollows(last_nav')
    /\ pc' = Aborted
    /\ LocalsGone
    /\ UNCHANGED <<run, env_vars>>
    /\ UNCHANGED store_unchanged

\* what the selector of the next-page link finds: nothing, a link without
\* href, a link with one
NextButtons == {"none", "nohref", "link"}

\* the portfolio pages a run may be shown after page_num next links: any page
\* at any visit, or, where the world fixes the portfolio as a ring of pages
\* (the next link of the last page leads back to the first), that page
PortfolioShown ==
    IF "site" \in DOMAIN world
    THEN { world.site[(page_num % Len(world.site)) + 1] }
    ELSE { [links |-> l, next_btn |-> b] : l \in PortfolioPages, b \in NextButtons }

FollowsNext_any_page(next_btn, new_found) == next_btn = "link"

\* 743-746: the loop goes on only through a next link with an href, and only
\* after a page that showed an id not seen before
FollowsNext(next_btn, new_found) == next_btn = "link" /\ new_found

\* 703-752: one page of the portfolio; 817-834 once the loop has ended
PortfolioPage ==
    /\ pc = "portfolio"
    /\ last_nav' = NetworkIdleOk
    /\ rested' = DelayFollows(last_nav')
    /\ \E shown \in PortfolioShown :
          LET my == NewMine(shown.links, 1, my_projects)
              new_found == Len(my) > Len(my_projects)
          IN /\ my_projects' = my
             /\ IF FollowsNext(shown.next_btn, new_found)
                THEN /\ pc' = "portfolio"
                     /\ page_num' = page_num + 1
                     /\ UNCHANGED <<all_search_data, all_projects, all_authors, idx>>
                ELSE /\ all_projects' = MergeMineProjects(my, 1, all_projects)
                     /\ all_search_data' =
                            MergeMineMarks(my, 1, all_projects, all_search_data)
                     /\ all_authors' = AddMyUsername(all_authors)
                     /\ idx' = 1
                     /\ page_num' = page_num
                     /\ pc' = IF Len(all_projects') > 0 THEN "details"
                              ELSE "author_scrape"
    /\ UNCHANGED <<snapshots, authors, author_snapshots, projects, project_tags,
                   search_results, db_error, calls, run, queries, qi,
                   snapshot_id, position, results, page_cards, sk,
                   author_db_ids, project_db_ids, env_vars>>

\* ---- scrape_project_details and run_full_scrape, step 3 ----

\* what scrape_project_details returns: the page of p1 shows a publish date
\* and tags, the page of p2 neither
DetailsOf(pid) ==
    IF pid = "p1"
    THEN [published_date |-> <<"2026-01-13">>, tags |-> <<"a", " a">>,
          is_featured |-> <<1>>]
    ELSE [tags |-> <<>>, is_featured |-> <<1>>]

\* the pc after the project at idx has been handled
AfterDetail == IF idx < Len(all_projects) THEN "details" ELSE "author_scrape"

\* faulty variant: the exception of scrape_project_details leaves
\* run_full_scrape
AfterDetailError_reraised == Aborted

\* the pc after scrape_project_details raised (850-851: caught, logged)
AfterDetailError == AfterDetail

detail_unchanged == <<snapshots, authors, author_snapshots, projects,
                      project_tags, search_results, db_error, calls, run,
                      queries, qi, snapshot_id, page_num, position, results,
                      page_cards, all_projects, all_authors, sk,
                      author_db_ids, project_db_ids, env_vars>>

\* 847-849: the page loads at networkidle, or at domcontentloaded after one
\* timeout (361-365); the details are merged into the project's record
ProjectDetailOk ==
    /\ pc = "details"
    /\ LET ref == all_projects[idx] IN
       \E nav \in {NetworkIdleOk, RetryOk} :
          /\ last_nav' = nav
          /\ rested' = DelayFollows(nav)
          /\ all_search_data' =
                UpdateSearchData(all_search_data, ref, DetailsOf(ref.pid))
          /\ my_projects' = UpdateMyProjects(my_projects, ref, DetailsOf(ref.pid))
    /\ pc' = AfterDetail
    /\ idx' = IF idx < Len(all_projects) THEN idx + 1 ELSE 1
    /\ UNCHANGED detail_unchanged

\* 850-851: scrape_project_details raises, by a second timeout (365) or,
\* the page loaded, while a field is extracted (no extraction of 372-532 is
\* guarded but the json.loads of 396, 421 and 516: reading a content block
\* at 448 or a link at 485 raises out of the function); the dict built so
\* far is lost with the exception and nothing is merged
ProjectDetailRaises ==
    /\ pc = "details"
    /\ \E nav \in {RetryTimeout, NetworkIdleOk, RetryOk} : last_nav' = nav
    /\ rested' = DelayFollows(last_nav')
    /\ pc' = AfterDetailError
    /\ idx' = IF idx < Len(all_projects) THEN idx + 1 ELSE 1
    /\ UNCHANGED <<all_search_data, my_projects>>
    /\ UNCHANGED detail_unchanged

\* ---- scrape_author_profile and run_full_scrape, step 4 ----

\* what scrape_author_profile returns
ProfileOf(uname) ==
    [username |-> uname, url |-> <<"profile_url">>,
     display_name |-> <<NameOf(uname)>>,
     stats |-> [total_views |-> 100],
     has_pro |-> <<0>>, profile_completeness |-> <<30>>]

author_unchanged == <<snapshots, projects, project_tags, search_results,
                      db_error, calls, run, queries, qi, snapshot_id, page_num,
                      position, results, page_cards, all_search_data,
                      my_projects, all_projects, sk, project_db_ids, env_vars>>

\* 860-862
AuthorProfileOk ==
    /\ pc = "author_scrape"
    /\ \E nav \in {NetworkIdleOk, RetryOk} : last_nav' = nav
    /\ rested' = DelayFollows(last_nav')
    /\ all_authors' = [all_authors EXCEPT ![idx] =
                          ProfileOf(all_authors[idx]["username"]) @@ @]
    /\ pc' = "author_upsert"
    /\ UNCHANGED <<authors, author_snapshots, idx, author_db_ids>>
    /\ UNCHANGED author_unchanged

\* 863-864: scrape_author_profile raises; caught, logged
AuthorProfileRaises ==
    /\ pc = "author_scrape"
    /\ \E nav \in {RetryTimeout, NetworkIdleOk} : last_nav' = nav
    /\ rested' = DelayFollows(last_nav')
    /\ pc' = "author_upsert"
    /\ UNCHANGED <<authors, author_snapshots, all_authors, idx, author_db_ids>>
    /\ UNCHANGED author_unchanged

\* 908-911: step 7 runs when config.TRACKED_PROJECTS is not empty
AfterSave == IF Len(world.tracked) > 0 THEN "track" ELSE "done"

\* the pc after the author at idx has been handled; without projects there
\* are no results either, and the loops of steps 5 and 6 run zero times
AfterAuthor ==
    IF idx < Len(all_authors) THEN "author_scrape"
    ELSE IF Len(all_projects) > 0 THEN "save_project"
    ELSE AfterSave

\* 866-867: db.upsert_author
AuthorUpsert ==
    /\ pc = "author_upsert"
    /\ LET adata == all_authors[idx] IN
       /\ authors' = upsert_author(authors, adata, run)
       /\ author_db_ids' = (adata["username"] :> FindAuthor(authors', adata["username"]))
                               @@ author_db_ids
    /\ IF Len(all_search_data) > 0
       THEN pc' = "author_snapshot" /\ idx' = idx
       ELSE pc' = AfterAuthor /\ idx' = IF idx < Len(all_authors) THEN idx + 1 ELSE 1
    /\ last_nav' = <<>>
    /\ rested' = rested
    /\ UNCHANGED <<author_snapshots, all_authors>>
    /\ UNCHANGED author_unchanged

\* 869-872: one author_snapshots row, on the snapshot of the first query
AuthorSnapshot ==
    /\ pc = "author_snapshot"
    /\ LET adata == all_authors[idx]
           stats == IF "stats" \in DOMAIN adata THEN adata["stats"] ELSE <<>>
       IN author_snapshots' =
             upsert_author_snapshot(author_snapshots,
                                    author_db_ids[adata["username"]],
                                    all_search_data[1].snapshot_id, stats)
    /\ pc' = AfterAuthor
    /\ idx' = IF idx < Len(all_authors) THEN idx + 1 ELSE 1
    /\ last_nav' = <<>>
    /\ rested' = rested
    /\ UNCHANGED <<authors, all_authors, author_db_ids>>
    /\ UNCHANGED author_unchanged

\* ---- run_full_scrape, steps 5 and 6 ----

\* the first query at or after q that has results, 0 when there is none
RECURSIVE FirstWithResults(_, _)
FirstWithResults(asd, q) ==
    IF q > Len(asd) THEN 0
    ELSE IF Len(asd[q].results) > 0 THEN q
    ELSE FirstWithResults(asd, q + 1)

\* the pc after the project at idx has been saved
AfterSaveProject ==
    IF idx < Len(all_projects) THEN "save_project"
    ELSE IF FirstWithResults(all_search_data, 1) > 0 THEN "save_results"
    ELSE AfterSave

\* the loop index after the project at idx has been saved
IdxAfterSaveProject ==
    IF idx < Len(all_projects) THEN idx + 1
    ELSE IF FirstWithResults(all_search_data, 1) > 0
    THEN FirstWithResults(all_search_data, 1)
    ELSE 1

\* author_db_ids.get(uname)
AuthorIdOf(uname) ==
    IF uname # Null /\ uname[1] \in DOMAIN author_db_ids
    THEN <<author_db_ids[uname[1]]>> ELSE Null

save_unchanged == <<snapshots, authors, author_snapshots, calls, run, queries,
                    qi, snapshot_id, page_num, position, results, page_cards,
                    last_nav, rested, all_projects, all_authors, author_db_ids,
                    env_vars>>

\* 878-884: db.upsert_project of the project at idx
SaveProject ==
    /\ pc = "save_project"
    /\ LET ref == all_projects[idx]
           upd == [author_id |-> AuthorIdOf(Get(Deref(ref), "author_username")),
                   behance_id |-> ref.pid]
           pdata == upd @@ Deref(ref)
       IN /\ all_search_data' = UpdateSearchData(all_search_data, ref, upd)
          /\ my_projects' = UpdateMyProjects(my_projects, ref, upd)
          /\ projects' = upsert_project(projects, pdata, run)
          /\ project_db_ids' = (ref.pid :> FindProject(projects', ref.pid))
                                  @@ project_db_ids
          /\ IF Get(pdata, "tags") # <<>>
             THEN pc' = "save_tags" /\ idx' = idx /\ sk' = sk
             ELSE pc' = AfterSaveProject /\ idx' = IdxAfterSaveProject /\ sk' = 1
    /\ UNCHANGED <<project_tags, search_results, db_error>>
    /\ UNCHANGED save_unchanged

\* 886-887: db.insert_project_tags
SaveTags ==
    /\ pc = "save_tags"
    /\ LET ref == all_projects[idx]
           r == TagsAfter(project_tags, project_db_ids[ref.pid], Deref(ref)["tags"])
       IN /\ project_tags' = r.rows
          /\ db_error' = r.error
          /\ IF r.error # "none"
             THEN pc' = "db_error" /\ idx' = idx /\ sk' = sk
             ELSE pc' = AfterSaveProject /\ idx' = IdxAfterSaveProject /\ sk' = 1
    /\ UNCHANGED <<projects, search_results, all_search_data, my_projects,
                   project_db_ids>>
    /\ UNCHANGED save_unchanged

\* 891-906: db.insert_search_result of result sk of query idx
SaveSearchResult ==
    /\ pc = "save_results"
    /\ LET sdata == all_search_data[idx]
           r == sdata.results[sk]
           pid == r["behance_id"]
           next_q == IF sk < Len(sdata.results) THEN idx
                     ELSE FirstWithResults(all_search_data, idx + 1)
       IN /\ IF pid \in DOMAIN project_db_ids /\ project_db_ids[pid] # 0
             THEN search_results' =
                     insert_search_result(search_results, sdata.snapshot_id,
                        [project_id |-> project_db_ids[pid],
                         position |-> r["position"],
                         is_featured |-> IF "is_featured" \in DOMAIN r
                                         THEN r["is_featured"][1] ELSE 0])
             ELSE search_results' = search_results      \* 895-896: continue
          /\ IF next_q = 0
             THEN pc' = AfterSave /\ idx' = 1 /\ sk' = sk
             ELSE /\ pc' = "save_results"
                  /\ idx' = next_q
                  /\ sk' = IF next_q = idx THEN sk + 1 ELSE 1
    /\ UNCHANGED <<projects, project_tags, db_error, all_search_data,
                   my_projects, project_db_ids>>
    /\ UNCHANGED save_unchanged

\* ---- _track_experiment_projects and db.insert_tracked_snapshot ----

\* 992-999: the position of the first record of the query's results that
\* has the id; None when there is none or the query is not in search_data
TrackedPosition(asd, query, bid) ==
    IF \E q \in 1..Len(asd) : asd[q].query = query
    THEN LET res == asd[CHOOSE q \in 1..Len(asd) : asd[q].query = query].results
             hits == { k \in 1..Len(res) : res[k]["behance_id"] = bid }
         IN IF hits = {} THEN Null
            ELSE <<res[CHOOSE k \in hits : \A j \in hits : k <= j]["position"]>>
    ELSE Null

\* the views the page of a tracked project shows
TrackedViewsOf(bid) == IF bid = "p1" THEN 7 ELSE 9

\* db.insert_tracked_snapshot: a plain INSERT
insert_tracked_snapshot(rows, data, now) ==
    Append(rows, [timestamp |-> now,
                  behance_id |-> data["behance_id"],
                  views |-> GetD(data, "views", 0)[1],
                  position_infografika |-> Get(data, "position_infografika"),
                  position_design_cards |-> Get(data, "position_design_cards")])

\* the pc and the loop index after the entry at idx
AfterTrack == IF idx < Len(world.tracked) THEN "track" ELSE "done"

IdxAfterTrack == IF idx < Len(world.tracked) THEN idx + 1 ELSE idx

track_unchanged == <<snapshots, authors, author_snapshots, projects,
                     project_tags, search_results, db_error, calls, run,
                     queries, qi, snapshot_id, page_num, position, results,
                     page_cards, all_search_data, my_projects, all_projects,
                     all_authors, sk, author_db_ids, project_db_ids, world,
                     conns, pure_call>>

\* 924-926: an entry without behance_id is passed over
TrackSkip ==
    /\ pc = "track"
    /\ world.tracked[idx]["behance_id"] = ""
    /\ pc' = AfterTrack
    /\ idx' = IdxAfterTrack
    /\ UNCHANGED <<tracked_snapshots, last_nav, rested>>
    /\ UNCHANGED track_unchanged

\* the row of the entry at idx, with the views the fetch gave
TrackedRow(views) ==
    LET bid == world.tracked[idx]["behance_id"] IN
    [behance_id |-> bid,
     views |-> <<views>>,
     position_infografika |-> TrackedPosition(all_search_data, InfografikaQuery, bid),
     position_design_cards |-> TrackedPosition(all_search_data, DesignCardsQuery, bid)]

\* 937-983, 986-1010: the page loads and shows the views
TrackProject ==
    /\ pc = "track"
    /\ world.tracked[idx]["behance_id"] # ""
    /\ last_nav' = NetworkIdleOk
    /\ rested' = DelayFollows(last_nav')
    /\ tracked_snapshots' =
          insert_tracked_snapshot(tracked_snapshots,
             TrackedRow(TrackedViewsOf(world.tracked[idx]["behance_id"])), run)
    /\ pc' = AfterTrack
    /\ idx' = IdxAfterTrack
    /\ UNCHANGED track_unchanged

\* 938, 982-983: page.goto raises; caught, logged, the row is written with
\* the stats left at 0
TrackProjectFetchFails ==
    /\ pc = "track"
    /\ world.tracked[idx]["behance_id"] # ""
    /\ last_nav' = NetworkIdleTimeout
    /\ rested' = DelayFollows(last_nav')
    /\ tracked_snapshots' =
          insert_tracked_snapshot(tracked_snapshots, TrackedRow(0), run)
    /\ pc' = AfterTrack
    /\ idx' = IdxAfterTrack
    /\ UNCHANGED track_unchanged

\* ---- the run as a whole ----

Running == {"query", "listing", "count", "portfolio", "details",
            "author_scrape", "author_upsert", "author_snapshot",
            "save_project", "save_tags", "save_results", "track"}

\* run_full_scrape(queries) starts with fresh locals
Started(qs) ==
    /\ run' = run + 1
    /\ queries' = qs
    /\ qi' = 1
    /\ pc' = "query"
    /\ snapshot_id' = 0
    /\ page_num' = 0
    /\ position' = 0
    /\ results' = <<>>
    /\ page_cards' = <<>>
    /\ last_nav' = <<>>
    /\ rested' = TRUE
    /\ all_search_data' = <<>>
    /\ my_projects' = <<>>
    /\ all_projects' = <<>>
    /\ all_authors' = <<>>
    /\ idx' = 0
    /\ sk' = 0
    /\ author_db_ids' = <<>>
    /\ project_db_ids' = <<>>
    /\ UNCHANGED env_vars
    /\ UNCHANGED store_unchanged

\* the first run on a fresh store
StartRun ==
    /\ pc = "idle"
    /\ \E qs \in world.lists : Started(qs)

\* the external scheduler starts another run once the previous one has
\* ended, however it ended
StartNextRun ==
    /\ pc \in {"done", "aborted", "interrupted"}
    /\ run < MaxRuns
    /\ \E qs \in world.lists : Started(qs)

\* the process is killed between two steps; what is committed stays
Interrupt ==
    /\ pc \in Running
    /\ pc' = "interrupted"
    /\ last_nav' = <<>>
    /\ rested' = rested
    /\ LocalsGone
    /\ UNCHANGED <<run, env_vars>>
    /\ UNCHANGED store_unchanged

\* one run of the pipeline on a fresh store; the listing of the site has one
\* page more than a run may visit
Init ==
    /\ InitStore
    /\ InitRun
    /\ world = [cards |-> MaxCardsPerPage, pages |-> PAGES_PER_QUERY + 1,
                lists |-> {PrimaryQueries}, tracked |-> TrackedEntries]
    /\ calls = <<>>
    /\ conns = <<>>
    /\ pure_call = NoCall

\* steps 1 to 6
PipelineSteps ==
    \/ StartRun
    \/ CreateSnapshot
    \/ ListingNoNext
    \/ ListingGotoTimeout
    \/ ListingNoCards
    \/ ListingCards
    \/ FinishQuery
    \/ PortfolioGotoTimeout
    \/ PortfolioPage
    \/ ProjectDetailOk
    \/ ProjectDetailRaises
    \/ AuthorProfileOk
    \/ AuthorProfileRaises
    \/ AuthorUpsert
    \/ AuthorSnapshot
    \/ SaveProject
    \/ SaveTags
    \/ SaveSearchResult
    \/ Interrupt

\* one run with tracked projects configured
Next ==
    \/ PipelineSteps
    \/ TrackSkip
    \/ TrackProject
    \/ TrackProjectFetchFails

Spec == Init /\ [][Next]_vars

\* repeated runs on a site whose listing pages show few cards
InitRuns ==
    /\ InitStore
    /\ InitRun
    /\ world = [cards |-> RunsCardsPerPage, pages |-> RunsPages,
                lists |-> QueryLists, tracked |-> TRACKED_PROJECTS]
    /\ calls = <<>>
    /\ conns = <<>>
    /\ pure_call = NoCall

NextRuns ==
    \/ PipelineSteps
    \/ StartNextRun

SpecRuns == InitRuns /\ [][NextRuns]_vars

\* one run over the primary and the secondary query, on a site whose
\* listings have a single page of up to two cards
InitQueries ==
    /\ InitStore
    /\ InitRun
    /\ world = [cards |-> QueriesCardsPerPage, pages |-> QueriesPages,
                lists |-> { <<"q1", "q2">> }, tracked |-> TRACKED_PROJECTS]
    /\ calls = <<>>
    /\ conns = <<>>
    /\ pure_call = NoCall

NextQueries == PipelineSteps

SpecQueries == InitQueries /\ [][NextQueries]_vars

\* ------------------------------------------------------------------------
\* SpecPortfolio: one run against a portfolio of fixed shape, a ring of up
\* to MaxSitePages pages; the coroutine is alone on its event loop and every
\* await of the portfolio loop returns or raises (page.goto carries
\* NAVIGATION_TIMEOUT), so a started iteration is always finished
\* ------------------------------------------------------------------------

MaxSitePages == 2

MaxSiteLinks == 2

\* the gallery ids the portfolio exposes
GalleryIds == {"p1", "p2"}

SitePages(max_links) ==
    { [links |-> l, next_btn |-> b] :
        l \in UNION { [1..n -> GalleryIds] : n \in 0..max_links },
        b \in NextButtons }

Sites(max_pages, max_links) ==
    UNION { [1..n -> SitePages(max_links)] : n \in 1..max_pages }

InitPortfolio ==
    /\ InitStore
    /\ InitRun
    /\ \E site \in Sites(MaxSitePages, MaxSiteLinks) :
          world = [cards |-> RunsCardsPerPage, pages |-> RunsPages,
                   lists |-> {PrimaryQueries}, tracked |-> TRACKED_PROJECTS,
                   site |-> site]
    /\ calls = <<>>
    /\ conns = <<>>
    /\ pure_call = NoCall

NextPortfolio == PipelineSteps

SpecPortfolio ==
    /\ InitPortfolio
    /\ [][NextPortfolio]_vars
    /\ WF_vars(PortfolioGotoTimeout \/ PortfolioPage)

\* ------------------------------------------------------------------------
\* SpecParse: _parse_number (scraper.py 33-45) applied to bounded inputs
\* ------------------------------------------------------------------------

\* A str is the sequence of its characters.  The characters of the inputs:
\* "nbsp" is U+00A0, "cyr_k", "cyr_K", "cyr_m", "cyr_M" are the Cyrillic
\* letters ka and em, "x" is any other letter.
DigitChars == {"0", "1", "2", "3", "4", "5", "6", "7", "8", "9"}

\* the digits of the inputs of _parse_number
NumberDigits == {"0", "1", "2", "4", "5", "7"}

NBSP == "nbsp"

KiloChars == {"k", "K", "cyr_k", "cyr_K"}

MegaChars == {"m", "M", "cyr_m", "cyr_M"}

Chars == NumberDigits \cup {".", ",", " ", NBSP, "x"} \cup KiloChars \cup MegaChars

\* the longest input of which every string is drawn
MaxTextLen == 4

\* every string of at most n characters
RECURSIVE TextsUpTo(_)
TextsUpTo(n) ==
    IF n = 0 THEN { <<>> }
    ELSE LET shorter == TextsUpTo(n - 1)
         IN shorter \cup { Append(t, c) : t \in { u \in shorter : Len(u) = n - 1 },
                                            c \in Chars }

\* longer counter texts as the site shows them
SampleTexts ==
    { <<"2", " ", "0", "7", "5">>, <<"2", ",", "0", "7", "5">>,
      <<"2", NBSP, "0", "7", "5">>, <<"1", "2", ",", "5", "K">>,
      <<"2", ".", "0", "1", "K">>, <<"2", ".", "0", "1", "cyr_m">>,
      <<"1", "2", ".", "5", "k">>, <<"1", ".", "2", ".", "K">> }

\* the arguments of _parse_number: None, or a str
NumberInputs(n) ==
    {Null} \cup { <<t>> : t \in TextsUpTo(n) \cup SampleTexts }

\* ---- natural numbers of any size (Python's int), as sequences of limbs of
\* ---- LimbBits bits, lowest first

LimbBits == 12

Base == 2 ^ LimbBits

RECURSIVE Limbs(_)
Limbs(n) == IF n = 0 THEN <<>> ELSE <<n % Base>> \o Limbs(n \div Base)

RECURSIVE NatOf(_)
NatOf(b) == IF b = <<>> THEN 0 ELSE b[1] + Base * NatOf(Tail(b))

RECURSIVE SmallBitLen(_)
SmallBitLen(x) == IF x = 0 THEN 0 ELSE 1 + SmallBitLen(x \div 2)

\* b without its leading zero limbs
RECURSIVE Trim(_)
Trim(b) ==
    IF b # <<>> /\ b[Len(b)] = 0 THEN Trim(SubSeq(b, 1, Len(b) - 1)) ELSE b

BitLen(b) ==
    LET t == Trim(b)
    IN IF t = <<>> THEN 0
       ELSE LimbBits * (Len(t) - 1) + SmallBitLen(t[Len(t)])

RECURSIVE Inc(_)
Inc(b) ==
    IF b = <<>> THEN <<1>>
    ELSE IF b[1] < Base - 1 THEN <<b[1] + 1>> \o Tail(b)
    ELSE <<0>> \o Inc(Tail(b))

\* b * k + carry, for k <= Base
RECURSIVE MulBy(_, _, _)
MulBy(b, k, carry) ==
    IF b = <<>> THEN Limbs(carry)
    ELSE LET t == b[1] * k + carry
         IN <<t % Base>> \o MulBy(Tail(b), k, t \div Base)

\* b * 2^n
ShiftLeft(b, n) ==
    MulBy([i \in 1..(n \div LimbBits) |-> 0] \o b, 2 ^ (n % LimbBits), 0)

\* quotient and remainder of the limbs 1..i of b, after the higher limbs
\* left the remainder rem, by den
RECURSIVE DivFrom(_, _, _, _)
DivFrom(b, den, i, rem) ==
    IF i = 0 THEN [q |-> <<>>, r |-> rem]
    ELSE LET cur == Base * rem + b[i]
             rest == DivFrom(b, den, i - 1, cur % den)
         IN [q |-> Append(rest.q, cur \div den), r |-> rest.r]

DivBy(b, den) == DivFrom(b, den, Len(b), 0)

\* quotient and remainder of b by 2^s
ShiftRight(b, s) ==
    LET a == IF s \div LimbBits < Len(b) THEN s \div LimbBits ELSE Len(b)
        qr == DivBy(SubSeq(b, a + 1, Len(b)), 2 ^ (s % LimbBits))
    IN [q |-> qr.q, low |-> SubSeq(b, 1, a), r |-> qr.r]

\* b / 2^s rounded to the nearest, ties to even; s < 31
RoundShift(b, s) ==
    IF s <= 0 THEN b
    ELSE LET sh == ShiftRight(b, s)
             rem == sh.r * Base ^ Len(sh.low) + NatOf(sh.low)
             half == 2 ^ (s - 1)
             up == \/ rem > half
                   \/ (rem = half /\ sh.q # <<>> /\ sh.q[1] % 2 = 1)
         IN IF up THEN Inc(sh.q) ELSE sh.q

RECURSIVE Pow10(_)
Pow10(d) == IF d = 0 THEN 1 ELSE 10 * Pow10(d - 1)

\* ---- Python's float: IEEE 754 binary64, a significand m of 53 bits and an
\* ---- exponent e, the value m * 2^e

MantissaBits == 53

\* float(g) of the decimal n / 10^d: the nearest binary64
float(n, d) ==
    IF n = 0 THEN [m |-> <<>>, e |-> 0]
    ELSE LET wide == 6 * LimbBits
             len == BitLen(DivBy(ShiftLeft(Limbs(n), wide), Pow10(d)).q)
             k == wide - (len - MantissaBits)
             qr == DivBy(ShiftLeft(Limbs(n), k), Pow10(d))
             up == \/ 2 * qr.r > Pow10(d)
                   \/ (2 * qr.r = Pow10(d) /\ qr.q[1] % 2 = 1)
         IN [m |-> IF up THEN Inc(qr.q) ELSE qr.q, e |-> 0 - k]

\* f * c of binary64, c = 1000 or 1000000: the exact product, rounded once
fmul(f, c) ==
    LET prod == IF c <= Base THEN MulBy(f.m, c, 0)
                ELSE MulBy(MulBy(f.m, 1000, 0), c \div 1000, 0)
        s == BitLen(prod) - MantissaBits
    IN IF s <= 0 THEN [m |-> prod, e |-> f.e]
       ELSE [m |-> RoundShift(prod, s), e |-> f.e + s]

\* int(f): truncation
int(f) ==
    IF f.e >= 0 THEN NatOf(ShiftLeft(f.m, f.e))
    ELSE NatOf(ShiftRight(f.m, 0 - f.e).q)

\* ---- str operations ----

\* str.isspace of the characters at hand; also what \s matches
IsSpace(c) == c \in {" ", NBSP}

IsDigit(c) == c \in DigitChars

DigitVal(c) ==
    CASE c = "0" -> 0 [] c = "1" -> 1 [] c = "2" -> 2 [] c = "3" -> 3
      [] c = "4" -> 4 [] c = "5" -> 5 [] c = "6" -> 6 [] c = "7" -> 7
      [] c = "8" -> 8 [] c = "9" -> 9

RECURSIVE lstrip(_)
lstrip(t) == IF t # <<>> /\ IsSpace(t[1]) THEN lstrip(Tail(t)) ELSE t

RECURSIVE rstrip(_)
rstrip(t) ==
    IF t # <<>> /\ IsSpace(t[Len(t)]) THEN rstrip(SubSeq(t, 1, Len(t) - 1))
    ELSE t

\* str.strip() of a sequence of characters
strip_text(t) == rstrip(lstrip(t))

\* t.replace(c, "")
replace(t, c) == SelectSeq(t, LAMBDA ch : ch # c)

\* int(ds) of a str of digits
RECURSIVE IntOfDigits(_)
IntOfDigits(ds) ==
    IF ds = <<>> THEN 0
    ELSE 10 * IntOfDigits(SubSeq(ds, 1, Len(ds) - 1)) + DigitVal(ds[Len(ds)])

\* the length of the longest prefix of t that [\d.]+ can match
RECURSIVE NumericPrefixLen(_)
NumericPrefixLen(t) ==
    IF t # <<>> /\ (IsDigit(t[1]) \/ t[1] = ".")
    THEN 1 + NumericPrefixLen(Tail(t))
    ELSE 0

\* re.match(r"([\d.]+)\s*[letters]", t): the group, or None.  The group is
\* the longest numeric prefix: a shorter one would have to be followed by
\* white space or a letter, and is followed by a digit or a dot.
MatchMagnitude(t, letters) ==
    LET n == NumericPrefixLen(t)
        rest == SubSeq(t, n + 1, Len(t))
        j == n + 1 + (Len(rest) - Len(lstrip(rest)))
    IN IF n >= 1 /\ j <= Len(t) /\ t[j] \in letters
       THEN <<SubSeq(t, 1, n)>>
       ELSE Null

\* float(g) raises ValueError: g, made of digits and dots, is no decimal
FloatRaises(g) ==
    \/ Len(SelectSeq(g, LAMBDA ch : ch = ".")) > 1
    \/ SelectSeq(g, IsDigit) = <<>>

\* the number of digits of g behind its dot
FractionDigits(g) ==
    IF \E i \in 1..Len(g) : g[i] = "."
    THEN Len(g) - (CHOOSE i \in 1..Len(g) : g[i] = ".")
    ELSE 0

Returned(v) == [state |-> "returned", out |-> <<v>>]

Raised(exc) == [state |-> "raised", out |-> <<exc>>]

\* 39, 42: int(float(g) * c)
IntOfScaled(g, c) ==
    IF FloatRaises(g) THEN Raised("ValueError")
    ELSE Returned(int(fmul(float(IntOfDigits(SelectSeq(g, IsDigit)),
                                 FractionDigits(g)), c)))

\* scraper.py 33-45; arg is Null for None, <<text>> for a str
_parse_number(arg) ==
    IF arg = Null \/ arg[1] = <<>> THEN Returned(0)
    ELSE LET text == replace(replace(strip_text(arg[1]), ","), NBSP)
             kilo == MatchMagnitude(text, KiloChars)
             mega == MatchMagnitude(text, MegaChars)
             digits == SelectSeq(text, IsDigit)
         IN IF kilo # Null THEN IntOfScaled(kilo[1], 1000)
            ELSE IF mega # Null THEN IntOfScaled(mega[1], 1000000)
            ELSE IF digits # <<>> THEN Returned(IntOfDigits(digits))
            ELSE Returned(0)

InitParse ==
    /\ InitStore
    /\ InitRun
    /\ world = [cards |-> 0, pages |-> 0, lists |-> {}, tracked |-> <<>>]
    /\ calls = <<>>
    /\ conns = <<>>
    /\ pure_call \in { [fn |-> "_parse_number", arg |-> a,
                        state |-> "pending", out |-> Null] :
                       a \in NumberInputs(MaxTextLen) }

parse_unchanged == <<snapshots, authors, author_snapshots, projects,
                     project_tags, search_results, db_error, calls, pc, run,
                     queries, qi, snapshot_id, page_num, position, results,
                     page_cards, last_nav, rested, all_search_data, my_projects,
                     all_projects, all_authors, idx, sk, author_db_ids,
                     project_db_ids, world, conns, tracked_snapshots>>

\* the call returns or raises
ParseNumber ==
    /\ pure_call.fn = "_parse_number"
    /\ pure_call.state = "pending"
    /\ LET res == _parse_number(pure_call.arg)
       IN pure_call' = [pure_call EXCEPT !.state = res.state, !.out = res.out]
    /\ UNCHANGED parse_unchanged

NextParse == ParseNumber

SpecParse == InitParse /\ [][NextParse]_vars

\* ------------------------------------------------------------------------
\* SpecDate: _parse_behance_date (scraper.py 81-133) applied to the two
\* sentences a project page shows for a date
\* ------------------------------------------------------------------------

\* the years of the dates
FirstYear == 2023

LastYear == 2026

\* MONTH_MAP, 81-89: the keys, in the order of their values 1..12; a key is
\* the sequence of its letters, a Cyrillic letter is written "cyr_" and its
\* transliteration
MonthNamesEn ==
<<
   <<"j", "a", "n", "u", "a", "r", "y">>,
   <<"f", "e", "b", "r", "u", "a", "r", "y">>,
   <<"m", "a", "r", "c", "h">>,
   <<"a", "p", "r", "i", "l">>,
   <<"m", "a", "y">>,
   <<"j", "u", "n", "e">>,
   <<"j", "u", "l", "y">>,
   <<"a", "u", "g", "u", "s", "t">>,
   <<"s", "e", "p", "t", "e", "m", "b", "e", "r">>,
   <<"o", "c", "t", "o", "b", "e", "r">>,
   <<"n", "o", "v", "e", "m", "b", "e", "r">>,
   <<"d", "e", "c", "e", "m", "b", "e", "r">>
>>

\* the Russian names, in the genitive
MonthNamesRu ==
<<
   <<"cyr_ya", "cyr_n", "cyr_v", "cyr_a", "cyr_r", "cyr_ya">>,
   <<"cyr_f", "cyr_e", "cyr_v", "cyr_r", "cyr_a", "cyr_l", "cyr_ya">>,
   <<"cyr_m", "cyr_a", "cyr_r", "cyr_t", "cyr_a">>,
   <<"cyr_a", "cyr_p", "cyr_r", "cyr_e", "cyr_l", "cyr_ya">>,
   <<"cyr_m", "cyr_a", "cyr_ya">>,
   <<"cyr_i", "cyr_yu", "cyr_n", "cyr_ya">>,
   <<"cyr_i", "cyr_yu", "cyr_l", "cyr_ya">>,
   <<"cyr_a", "cyr_v", "cyr_g", "cyr_u", "cyr_s", "cyr_t", "cyr_a">>,
   <<"cyr_s", "cyr_e", "cyr_n", "cyr_t", "cyr_ya", "cyr_b", "cyr_r", "cyr_ya">>,
   <<"cyr_o", "cyr_k", "cyr_t", "cyr_ya", "cyr_b", "cyr_r", "cyr_ya">>,
   <<"cyr_n", "cyr_o", "cyr_ya", "cyr_b", "cyr_r", "cyr_ya">>,
   <<"cyr_d", "cyr_e", "cyr_k", "cyr_a", "cyr_b", "cyr_r", "cyr_ya">>
>>

\* MONTH_MAP.get(word): 0 for None
MONTH_MAP(word) ==
    IF \E i \in 1..12 : MonthNamesEn[i] = word
    THEN CHOOSE i \in 1..12 : MonthNamesEn[i] = word
    ELSE IF \E i \in 1..12 : MonthNamesRu[i] = word
    THEN CHOOSE i \in 1..12 : MonthNamesRu[i] = word
    ELSE 0

\* 103: the prefixes
PrefixEn == <<"P", "u", "b", "l", "i", "s", "h", "e", "d", ":">>

PrefixRu ==
    <<"cyr_O", "cyr_p", "cyr_u", "cyr_b", "cyr_l", "cyr_i", "cyr_k",
      "cyr_o", "cyr_v", "cyr_a", "cyr_n", "cyr_o", ":">>

UpperLetters ==
    <<"A", "B", "C", "D", "E", "F", "G", "H", "I", "J", "K", "L", "M",
      "N", "O", "P", "Q", "R", "S", "T", "U", "V", "W", "X", "Y", "Z",
      "cyr_O", "cyr_K", "cyr_M">>

LowerLetters ==
    <<"a", "b", "c", "d", "e", "f", "g", "h", "i", "j", "k", "l", "m",
      "n", "o", "p", "q", "r", "s", "t", "u", "v", "w", "x", "y", "z",
      "cyr_o", "cyr_k", "cyr_m">>

\* str.lower()
lower(w) ==
    [i \in 1..Len(w) |->
        IF \E j \in 1..Len(UpperLetters) : UpperLetters[j] = w[i]
        THEN LowerLetters[CHOOSE j \in 1..Len(UpperLetters) : UpperLetters[j] = w[i]]
        ELSE w[i]]

\* str.capitalize() of a lower-case word
capitalize(w) ==
    [i \in 1..Len(w) |->
        IF i = 1 /\ \E j \in 1..Len(LowerLetters) : LowerLetters[j] = w[i]
        THEN UpperLetters[CHOOSE j \in 1..Len(LowerLetters) : LowerLetters[j] = w[i]]
        ELSE w[i]]

\* t.replace(pat, ""): every occurrence of the substring, from the left
RECURSIVE replace_sub(_, _)
replace_sub(t, pat) ==
    IF Len(t) < Len(pat) THEN t
    ELSE IF SubSeq(t, 1, Len(pat)) = pat
    THEN replace_sub(SubSeq(t, Len(pat) + 1, Len(t)), pat)
    ELSE <<t[1]>> \o replace_sub(Tail(t), pat)

OrdinalSuffixes == { <<"s", "t">>, <<"n", "d">>, <<"r", "d">>, <<"t", "h">> }

\* faulty variant: only the suffix th is removed
RECURSIVE strip_ordinals_th_only(_, _)
strip_ordinals_th_only(t, after_digit) ==
    IF t = <<>> THEN <<>>
    ELSE IF after_digit /\ Len(t) >= 2 /\ SubSeq(t, 1, 2) = <<"t", "h">>
    THEN strip_ordinals_th_only(SubSeq(t, 3, Len(t)), FALSE)
    ELSE <<t[1]>> \o strip_ordinals_th_only(Tail(t), IsDigit(t[1]))

\* 106: re.sub(r"(\d+)(st|nd|rd|th)", r"\1", t); after_digit: the character
\* before t in the text is a digit
RECURSIVE strip_ordinals(_, _)
strip_ordinals(t, after_digit) ==
    IF t = <<>> THEN <<>>
    ELSE IF after_digit /\ Len(t) >= 2 /\ SubSeq(t, 1, 2) \in OrdinalSuffixes
    THEN strip_ordinals(SubSeq(t, 3, Len(t)), FALSE)
    ELSE <<t[1]>> \o strip_ordinals(Tail(t), IsDigit(t[1]))

\* 107: t.split(), word is the word begun
RECURSIVE split(_, _)
split(t, word) ==
    IF t = <<>> THEN (IF word = <<>> THEN <<>> ELSE <<word>>)
    ELSE IF IsSpace(t[1])
    THEN (IF word = <<>> THEN <<>> ELSE <<word>>) \o split(Tail(t), <<>>)
    ELSE split(Tail(t), Append(word, t[1]))

\* int(w) raises no ValueError
IsInt(w) == w # <<>> /\ \A i \in 1..Len(w) : IsDigit(w[i])

\* ---- datetime ----

IsLeap(y) == y % 4 = 0 /\ (y % 100 # 0 \/ y % 400 = 0)

DaysInMonth(y, m) ==
    IF m = 2 THEN (IF IsLeap(y) THEN 29 ELSE 28)
    ELSE IF m \in {4, 6, 9, 11} THEN 30 ELSE 31

\* datetime(y, m, d) raises no ValueError
IsDate(y, m, d) ==
    /\ y \in 1..9999
    /\ m \in 1..12
    /\ d \in 1..DaysInMonth(y, m)

RECURSIVE DaysBeforeMonth(_, _)
DaysBeforeMonth(y, m) ==
    IF m = 1 THEN 0 ELSE DaysBeforeMonth(y, m - 1) + DaysInMonth(y, m - 1)

\* date.toordinal(): 1 is 0001-01-01
toordinal(y, m, d) ==
    (y - 1) * 365 + (y - 1) \div 4 - (y - 1) \div 100 + (y - 1) \div 400
       + DaysBeforeMonth(y, m) + d

\* date.isoweekday()
isoweekday(y, m, d) ==
    IF toordinal(y, m, d) % 7 = 0 THEN 7 ELSE toordinal(y, m, d) % 7

DigitChar(n) == <<"0", "1", "2", "3", "4", "5", "6", "7", "8", "9">>[n + 1]

\* str(n)
RECURSIVE str(_)
str(n) == IF n < 10 THEN <<DigitChar(n)>> ELSE Append(str(n \div 10), DigitChar(n % 10))

\* n, zero-padded to w digits
RECURSIVE ZeroPad(_, _)
ZeroPad(t, w) == IF Len(t) >= w THEN t ELSE ZeroPad(<<"0">> \o t, w)

\* dt.strftime("%Y-%m-%d"), for the years from 1000 on
strftime(y, m, d) ==
    ZeroPad(str(y), 4) \o <<"-">> \o ZeroPad(str(m), 2) \o <<"-">> \o ZeroPad(str(d), 2)

\* 100, 109, 126, 133: return None, None, None
NoDate == [date |-> Null, dow |-> Null, hour |-> Null]

\* 118, 131
DateOf(y, m, d) ==
    [date |-> <<strftime(y, m, d)>>, dow |-> <<isoweekday(y, m, d)>>, hour |-> Null]

\* 122-133: the English order, month day year
ParseEnglishOrder(parts) ==
    LET month == MONTH_MAP(lower(parts[1]))
    IN IF month = 0 THEN NoDate
       ELSE IF /\ IsInt(parts[2])
               /\ IsInt(parts[3])
               /\ IsDate(IntOfDigits(parts[3]), month, IntOfDigits(parts[2]))
       THEN DateOf(IntOfDigits(parts[3]), month, IntOfDigits(parts[2]))
       ELSE NoDate

\* scraper.py 92-133; arg is Null for None, <<text>> for a str
_parse_behance_date(arg) ==
    IF arg = Null \/ arg[1] = <<>> THEN NoDate
    ELSE LET bare == replace_sub(replace_sub(arg[1], PrefixEn), PrefixRu)
             text == strip_text(replace_sub(bare, <<"cyr_g", ".">>))
             parts == split(strip_ordinals(text, FALSE), <<>>)
         IN IF Len(parts) < 3 THEN NoDate
            ELSE IF /\ MONTH_MAP(lower(parts[2])) # 0
                    /\ IsInt(parts[1])
                    /\ IsInt(parts[3])
                    /\ IsDate(IntOfDigits(parts[3]), MONTH_MAP(lower(parts[2])),
                              IntOfDigits(parts[1]))
            THEN DateOf(IntOfDigits(parts[3]), MONTH_MAP(lower(parts[2])),
                        IntOfDigits(parts[1]))
            ELSE ParseEnglishOrder(parts)

\* ---- the sentences of the page (95, 96, 374) ----

OrdinalSuffix(d) ==
    IF d \in {11, 12, 13} THEN <<"t", "h">>
    ELSE IF d % 10 = 1 THEN <<"s", "t">>
    ELSE IF d % 10 = 2 THEN <<"n", "d">>
    ELSE IF d % 10 = 3 THEN <<"r", "d">>
    ELSE <<"t", "h">>

\* 'Published: January 13th 2026'
EnglishSentence(y, m, d) ==
    PrefixEn \o <<" ">> \o capitalize(MonthNamesEn[m]) \o <<" ">>
       \o str(d) \o OrdinalSuffix(d) \o <<" ">> \o str(y)

\* the Russian sentence: prefix, day, month in the genitive, year and the
\* particle (the abbreviation of "year", Cyrillic ghe and a dot)
RussianSentence(y, m, d) ==
    PrefixRu \o <<" ">> \o str(d) \o <<" ">> \o MonthNamesRu[m] \o <<" ">>
       \o str(y) \o <<" ", "cyr_g", ".">>

\* the days the page may name: every day number in every month
DateInputs ==
    { [y |-> y, m |-> m, d |-> d] : y \in FirstYear..LastYear, m \in 1..12,
                                     d \in 1..31 }

InitDate ==
    /\ InitStore
    /\ InitRun
    /\ world = [cards |-> 0, pages |-> 0, lists |-> {}, tracked |-> <<>>]
    /\ calls = <<>>
    /\ conns = <<>>
    /\ pure_call \in { [fn |-> "_parse_behance_date", arg |-> a,
                        state |-> "pending", out |-> [en |-> Null, ru |-> Null]] :
                       a \in DateInputs }

\* both sentences of the date have been parsed
BothParsed(out) == IF out.en # Null /\ out.ru # Null THEN "returned" ELSE "pending"

\* the English sentence of the date is parsed
ParseEnglish ==
    /\ pure_call.fn = "_parse_behance_date"
    /\ pure_call.out.en = Null
    /\ LET a == pure_call.arg
           out == [pure_call.out EXCEPT
                      !.en = <<_parse_behance_date(<<EnglishSentence(a.y, a.m, a.d)>>)>>]
       IN pure_call' = [pure_call EXCEPT !.out = out, !.state = BothParsed(out)]
    /\ UNCHANGED parse_unchanged

\* the Russian sentence of the date is parsed
ParseRussian ==
    /\ pure_call.fn = "_parse_behance_date"
    /\ pure_call.out.ru = Null
    /\ LET a == pure_call.arg
           out == [pure_call.out EXCEPT
                      !.ru = <<_parse_behance_date(<<RussianSentence(a.y, a.m, a.d)>>)>>]
       IN pure_call' = [pure_call EXCEPT !.out = out, !.state = BothParsed(out)]
    /\ UNCHANGED parse_unchanged

NextDate == ParseEnglish \/ ParseRussian

SpecDate == InitDate /\ [][NextDate]_vars

\* ------------------------------------------------------------------------
\* SpecProfile: scrape_author_profile (scraper.py 541-686) on one profile page
\* ------------------------------------------------------------------------

\* the most rows of the statistics table and the most analytics links of a
\* page
MaxRows == 2

MaxLinks == 2

\* every sequence over S of at most n elements
SeqsUpTo(S, n) == UNION { [1..k -> S] : k \in 0..n }

\* a row of the statistics table ("table tr"): its label, lower case, and
\* int("".join(re.findall(r"\d+", row_text))), Null for a row without digits
TableRows ==
    { [label |-> "project views", num |-> <<0>>],
      [label |-> "project views", num |-> <<7>>],
      [label |-> "appreciations", num |-> <<7>>],
      [label |-> "followers", num |-> <<0>>],
      [label |-> "following", num |-> <<7>>],
      [label |-> "member", num |-> Null] }

\* an analytics link (a[href*="/analytics"]): its text and the text of the
\* table row or parent element around it
AnalyticsLinks ==
    { [text |-> <<"3">>, parent |-> "View"],
      [text |-> <<"0">>, parent |-> "View"],
      [text |-> <<"3">>, parent |-> "Appreciat"],
      [text |-> <<"2", "k">>, parent |-> "Appreciat"],
      [text |-> <<"3">>, parent |-> "Share"] }

\* the text of the followers / following link, Null when the page has none
FollowLinks == { Null, << <<"0">> >>, << <<"4">> >> }

\* the part of a page the statistics are read from: every table with every
\* list of analytics links, and every table with every pair of follow links
StatsParts(max_rows, max_links) ==
    { [rows |-> r, links |-> l, followers |-> Null, following |-> Null] :
         r \in SeqsUpTo(TableRows, max_rows),
         l \in SeqsUpTo(AnalyticsLinks, max_links) }
    \cup
    { [rows |-> r, links |-> <<>>, followers |-> fs, following |-> fg] :
         r \in SeqsUpTo(TableRows, max_rows),
         fs \in FollowLinks, fg \in FollowLinks }

\* a biography of more than ten characters
LongBio == [i \in 1..11 |-> "b"]

\* the elements the bio selectors of 577 find, in the order of the selectors
BioElements ==
    { <<>>, << <<" ">> >>, << <<"b", "i", "o">> >>, << LongBio, <<" ">> >>,
      << <<"b", "i", "o">>, <<" ">> >> }

\* the texts of an element the page may or may not have
ElementTexts == { Null, << <<" ">> >>, << <<"N">> >> }

\* the part of a page the attributes are read from
AttrParts ==
    { [h1 |-> h, loc |-> l, bio_els |-> b, about |-> a, hire |-> hr,
       banner |-> bn, web |-> w, services |-> s, pro |-> p] :
         h \in ElementTexts, l \in ElementTexts, b \in BioElements,
         a \in { Null, << <<"A">> >> }, hr \in ElementTexts,
         bn \in BOOLEAN, w \in BOOLEAN, s \in BOOLEAN, p \in BOOLEAN }

\* a page made of a statistics part and an attribute part
PageOf(s, a) ==
    [rows |-> s.rows, links |-> s.links, followers |-> s.followers,
     following |-> s.following, h1 |-> a.h1, loc |-> a.loc,
     bio_els |-> a.bio_els, about |-> a.about, hire |-> a.hire,
     banner |-> a.banner, web |-> a.web, services |-> a.services,
     pro |-> a.pro]

\* the profile pages: every statistics part on a page with a name only, and
\* every attribute part on a page with no, a zero and a positive view count
ProfilePages(max_rows, max_links) ==
    { PageOf(s, [h1 |-> << <<"N">> >>, loc |-> Null, bio_els |-> <<>>,
                 about |-> Null, hire |-> Null, banner |-> FALSE,
                 web |-> FALSE, services |-> FALSE, pro |-> FALSE]) :
         s \in StatsParts(max_rows, max_links) }
    \cup
    { PageOf([rows |-> r, links |-> <<>>, followers |-> Null,
              following |-> Null], a) :
         r \in { <<>>, << [label |-> "project views", num |-> <<0>>] >>,
                 << [label |-> "project views", num |-> <<7>>] >> },
         a \in AttrParts }

\* 602-609: the key a table row is stored under, Null for a row no branch
\* takes
RowKey(label) ==
    IF label = "project views" THEN <<"total_views">>
    ELSE IF label = "appreciations" THEN <<"total_appreciations">>
    ELSE IF label = "followers" THEN <<"followers">>
    ELSE IF label = "following" THEN <<"following">>
    ELSE Null

\* 595-609: the loop over the rows of the table
RECURSIVE ScanTable(_, _, _)
ScanTable(rows, i, stats) ==
    IF i > Len(rows) THEN stats
    ELSE ScanTable(rows, i + 1,
            IF rows[i].num = Null \/ RowKey(rows[i].label) = Null THEN stats
            ELSE (RowKey(rows[i].label)[1] :> rows[i].num[1]) @@ stats)

\* not stats.get(key)
Unset(stats, key) == key \notin DOMAIN stats \/ stats[key] = 0

\* 619-622: the key the row or parent around an analytics link names
ParentKey(parent) ==
    IF parent = "View" THEN <<"total_views">>
    ELSE IF parent = "Appreciat" THEN <<"total_appreciations">>
    ELSE Null

\* 614-622: the loop over the analytics links; acc is [state, stats]
RECURSIVE AnalyticsLoop(_, _, _)
AnalyticsLoop(links, i, acc) ==
    IF i > Len(links) \/ acc.state = "raised" THEN acc
    ELSE LET num == _parse_number(<<links[i].text>>)
             key == ParentKey(links[i].parent)
         IN AnalyticsLoop(links, i + 1,
               IF num.state = "raised" THEN [acc EXCEPT !.state = "raised"]
               ELSE IF num.out[1] > 0 /\ key # Null
               THEN [acc EXCEPT !.stats = (key[1] :> num.out[1]) @@ @]
               ELSE acc)

\* faulty variant: the analytics links are read whatever the table gave
AnalyticsFallback_unconditional(links, acc) == AnalyticsLoop(links, 1, acc)

\* 612-622: the fallback for views and appreciations
AnalyticsFallback(links, acc) ==
    IF Unset(acc.stats, "total_views") THEN AnalyticsLoop(links, 1, acc)
    ELSE acc

\* 624-631: the fallback for followers, and for following
FollowFallback(link, key, acc) ==
    IF acc.state # "raised" /\ Unset(acc.stats, key) /\ link # Null
    THEN LET num == _parse_number(link)
         IN IF num.state = "raised" THEN [acc EXCEPT !.state = "raised"]
            ELSE [acc EXCEPT !.stats = (key :> num.out[1]) @@ @]
    ELSE acc

\* 593-633: the statistics of the page
StatsOf(page) ==
    FollowFallback(page.following, "following",
       FollowFallback(page.followers, "followers",
          AnalyticsFallback(page.links,
             [state |-> "returned", stats |-> ScanTable(page.rows, 1, <<>>)])))

\* 577-582: the text the loop over the bio selectors ends with
RECURSIVE BioLoop(_, _, _)
BioLoop(els, i, bio_text) ==
    IF i > Len(els) THEN bio_text
    ELSE LET t == strip_text(els[i])
         IN IF t # <<>> /\ Len(t) > 10 THEN t ELSE BioLoop(els, i + 1, t)

\* 576-589: bio_text, taken from the About section when no element gave one
BioOf(page) ==
    LET bio_text == BioLoop(page.bio_els, 1, <<>>)
    IN IF bio_text = <<>> /\ page.about # Null THEN strip_text(page.about[1])
       ELSE bio_text

\* 1 if el else 0
Flag(present) == IF present THEN <<1>> ELSE <<0>>

\* the entry data[key] = text.strip() an element gives, none without element
TextEntry(key, el) == IF el = Null THEN <<>> ELSE (key :> <<strip_text(el[1])>>)

\* 555-654: the dict before the score is added
ProfileData(page) ==
    TextEntry("display_name", page.h1)
       @@ TextEntry("location", page.loc)
       @@ (IF BioOf(page) # <<>> THEN [bio_text |-> <<BioOf(page)>>] ELSE <<>>)
       @@ TextEntry("hire_status", page.hire)
       @@ [has_pro |-> Flag(page.pro), has_services |-> Flag(page.services),
           has_banner |-> Flag(page.banner), has_website_link |-> Flag(page.web)]

\* data.get(key) of a str entry, of a 0 / 1 entry
TruthyText(data, key) == key \in DOMAIN data /\ data[key][1] # <<>>

TruthyFlag(data, key) == key \in DOMAIN data /\ data[key][1] # 0

\* faulty variant: the bio counted for 25
ScoreWeights_heavy_bio ==
    [display_name |-> 15, location |-> 10, bio_text |-> 25, has_banner |-> 10,
     has_website_link |-> 10, hire_status |-> 10, total_views |-> 15,
     has_services |-> 10]

\* 657-673: what each attribute adds to the score
ScoreWeights ==
    [display_name |-> 15, location |-> 10, bio_text |-> 20, has_banner |-> 10,
     has_website_link |-> 10, hire_status |-> 10, total_views |-> 15,
     has_services |-> 10]

min(a, b) == IF a <= b THEN a ELSE b

\* 657-674
profile_completeness(data, stats) ==
    LET add(key, cond) == IF cond THEN ScoreWeights[key] ELSE 0
        score ==
            add("display_name", TruthyText(data, "display_name"))
            + add("location", TruthyText(data, "location"))
            + add("bio_text", TruthyText(data, "bio_text"))
            + add("has_banner", TruthyFlag(data, "has_banner"))
            + add("has_website_link", TruthyFlag(data, "has_website_link"))
            + add("hire_status", TruthyText(data, "hire_status"))
            + add("total_views", StatGet(stats, "total_views") > 0)
            + add("has_services", TruthyFlag(data, "has_services"))
    IN min(score, 100)

\* scraper.py 541-686 once the page has loaded: the dict returned, or the
\* exception of a _parse_number call
scrape_author_profile(page) ==
    LET st == StatsOf(page)
        data == ProfileData(page)
    IN IF st.state = "raised" THEN Raised("ValueError")
       ELSE Returned(data @@ [stats |-> st.stats,
                              profile_completeness |->
                                  <<profile_completeness(data, st.stats)>>])

InitProfile ==
    /\ InitStore
    /\ InitRun
    /\ world = [cards |-> 0, pages |-> 0, lists |-> {}, tracked |-> <<>>]
    /\ calls = <<>>
    /\ conns = <<>>
    /\ pure_call \in { [fn |-> "scrape_author_profile", arg |-> page,
                        state |-> "pending", out |-> Null] :
                       page \in ProfilePages(MaxRows, MaxLinks) }

\* the call returns or raises
ScrapeProfile ==
    /\ pure_call.fn = "scrape_author_profile"
    /\ pure_call.state = "pending"
    /\ LET res == scrape_author_profile(pure_call.arg)
       IN pure_call' = [pure_call EXCEPT !.state = res.state, !.out = res.out]
    /\ UNCHANGED parse_unchanged

NextProfile == ScrapeProfile

SpecProfile == InitProfile /\ [][NextProfile]_vars

\* ------------------------------------------------------------------------
\* Claims over SpecDb
\* ------------------------------------------------------------------------

\* the upsert_project observations of one behance_id, in call order
ObsOfProject(bid) ==
    SelectSeq(calls, LAMBDA c : c.op = "upsert_project" /\ c.data["behance_id"] = bid)

ObsOfAuthor(uname) ==
    SelectSeq(calls, LAMBDA c : c.op = "upsert_author" /\ c.data["username"] = uname)

\* the field-wise coalesce of observations 1..i: the latest non-null value
RECURSIVE LatestNonNull(_, _, _)
LatestNonNull(obs, fld, i) ==
    IF i = 0 THEN Null
    ELSE IF Get(obs[i].data, fld) # Null THEN Get(obs[i].data, fld)
    ELSE LatestNonNull(obs, fld, i - 1)

ProjectsAreCoalesce ==
    \A i \in 1..Len(projects) : \A fld \in ProjectFields :
        LET obs == ObsOfProject(projects[i].behance_id) IN
        projects[i].f[fld] = LatestNonNull(obs, fld, Len(obs))

\* a field some observation carried is stored non-null
NoFieldRegressesToNull ==
    /\ \A i \in 1..Len(projects) : \A fld \in ProjectFields :
          LET obs == ObsOfProject(projects[i].behance_id) IN
          (\E k \in 1..Len(obs) : Get(obs[k].data, fld) # Null)
              => projects[i].f[fld] # Null
    /\ \A i \in 1..Len(authors) : \A fld \in AuthorFields :
          LET obs == ObsOfAuthor(authors[i].username) IN
          (\E k \in 1..Len(obs) : Get(obs[k].data, fld) # Null)
              => authors[i].f[fld] # Null

\* C1 as stated: every stored field of every project and author row equals
\* the field-wise coalesce of the observations of that id (the latest
\* non-null incoming value, null when no observation carried one).
C1_StoredEqualsCoalesce ==
    /\ ProjectsAreCoalesce
    /\ \A i \in 1..Len(authors) : \A fld \in AuthorFields :
          LET obs == ObsOfAuthor(authors[i].username) IN
          authors[i].f[fld] = LatestNonNull(obs, fld, Len(obs))

\* C1 amended: project rows are the field-wise coalesce of their
\* observations; author rows are too, except that a column upsert_author
\* inserts with data.get(k, 0) holds 0, not null, while no observation has
\* carried a value and the inserting observation lacked the key; a field
\* some observation carried is never null afterwards.
C1_CoalesceMonotone ==
    /\ ProjectsAreCoalesce
    /\ \A i \in 1..Len(authors) : \A fld \in AuthorFields :
          LET obs == ObsOfAuthor(authors[i].username)
              v == LatestNonNull(obs, fld, Len(obs))
          IN authors[i].f[fld] =
                IF v = Null /\ fld \in AuthorInsertDefaultZero
                            /\ fld \notin DOMAIN obs[1].data
                THEN <<0>> ELSE v
    /\ NoFieldRegressesToNull

\* a project observed twice, the later observation lacking the title the
\* earlier one carried and the stored title still known; and an author
\* inserted from an observation without has_pro, stored with has_pro = 0
C1_Witness ==
    /\ \E i \in 1..Len(projects) :
          LET obs == ObsOfProject(projects[i].behance_id) IN
          /\ Len(obs) >= 2
          /\ Get(obs[1].data, "title") # Null
          /\ Get(obs[Len(obs)].data, "title") = Null
          /\ projects[i].f["title"] = Get(obs[1].data, "title")
    /\ \E i \in 1..Len(authors) :
          LET obs == ObsOfAuthor(authors[i].username) IN
          /\ "has_pro" \notin DOMAIN obs[1].data
          /\ authors[i].f["has_pro"] = <<0>>

\* the project_tags rows of one (project, tag) pair
TagRows(project_id, tag) ==
    { i \in 1..Len(project_tags) :
        project_tags[i].project_id = project_id /\ project_tags[i].tag_name = tag }

\* the number of insert_project_tags calls that carried the tag for the project
TagInsertions(project_id, tag) ==
    Cardinality({ k \in 1..Len(calls) :
        /\ calls[k].op = "insert_project_tags"
        /\ calls[k].project_id = project_id
        /\ \E j \in 1..Len(calls[k].tags) : strip(calls[k].tags[j]) = tag })

\* C9: however often a tag was inserted for a project (within one call or
\* across calls), exactly one project_tags row holds the pair, and no call
\* raised.
C9_TagInsertIdempotent ==
    /\ db_error = "none"
    /\ \A project_id \in 1..Len(projects) : \A tag \in {"a", "b"} :
          Cardinality(TagRows(project_id, tag)) =
              IF TagInsertions(project_id, tag) > 0 THEN 1 ELSE 0

\* the same tag inserted for the same project by two calls, one of them
\* carrying it twice (" a" and "a"), and one row stored
C9_Witness ==
    \E project_id \in 1..Len(projects) :
        /\ TagInsertions(project_id, "a") >= 2
        /\ \E k \in 1..Len(calls) :
              calls[k].op = "insert_project_tags" /\ calls[k].tags = <<" a", "a">>
                  /\ calls[k].project_id = project_id
        /\ Cardinality(TagRows(project_id, "a")) = 1

\* ------------------------------------------------------------------------
\* Claims over Spec and SpecRuns
\* ------------------------------------------------------------------------

\* the search_results rows of snapshot s, and their positions
RowsOf(s) == { k \in 1..Len(search_results) : search_results[k].snapshot_id = s }

PositionsOf(s) == { search_results[k].position : k \in RowsOf(s) }

\* the snapshots the current run has created
RunSnapshots == { s \in 1..Len(snapshots) : snapshots[s].timestamp = run }

\* the rows of snapshot s are exactly the positions 1..total_collected, once each
CountMatchesRows(s) ==
    /\ Cardinality(RowsOf(s)) = snapshots[s].total_collected
    /\ PositionsOf(s) = 1..snapshots[s].total_collected

\* the positions of a result list, in order
PositionsIn(res) == [k \in 1..Len(res) |-> res[k]["position"]]

\* scrape_project_details raised for the project of this reference: nothing
\* was merged into its record
DetailRaised(ref) == "tags" \notin DOMAIN Deref(ref)

\* scrape_author_profile raised for this author of all_authors
ProfileRaised(adata) == "stats" \notin DOMAIN adata

\* the author_snapshots rows an author has on the snapshots of run r
AuthorRowsOfRun(asnaps, auths, snaps, uname, r) ==
    LET aid == FindAuthor(auths, uname) IN
    { k \in 1..Len(asnaps) :
        /\ aid # 0
        /\ asnaps[k].author_id = aid
        /\ snaps[asnaps[k].snapshot_id].timestamp = r }

\* C2: after a completed run the search_results rows of every snapshot hold
\* the positions 1..total_collected, each once, also for a listing that had
\* discarded cards.  Violated: a discarded card consumes its position.
C2_PositionsContiguous ==
    pc = "done" => \A s \in 1..Len(snapshots) : CountMatchesRows(s)

\* C3: in the store an interrupted run leaves behind, total_collected of
\* every snapshot equals the number of its search_results rows, at positions
\* 1..N.  Violated: the count is committed in step 1, the rows in step 6.
C3_InterruptedStoreConsistent ==
    pc = "interrupted" => \A s \in 1..Len(snapshots) : CountMatchesRows(s)

\* C4: a navigation that timed out at networkidle has been retried once at
\* domcontentloaded, and no navigation timeout aborts the run.  Violated: the
\* listing and portfolio navigations are not retried and abort the run.
C4_TimeoutRetriedNeverAborts ==
    (Len(last_nav) >= 1 /\ ~last_nav[1].ok)
        => (Len(last_nav) = 2 /\ pc # Aborted)

\* C5: an exception while extracting one card, one project's details or one
\* author's profile never aborts the run: the run is aborted only by a
\* navigation timeout of a listing or portfolio page, every parseable card
\* of the page is still collected at its position, and a run that is done
\* has persisted every project and every author it holds.
C5_ItemFailureNeverAborts ==
    /\ pc = Aborted => last_nav = NetworkIdleTimeout
    /\ (pc \in {"listing", "count"} /\ page_num = 1)
          => \A i \in 1..Len(page_cards) :
                (i <= PROJECTS_PER_QUERY /\ page_cards[i].kind = "ok")
                   => \E k \in 1..Len(results) :
                         /\ results[k]["position"] = i
                         /\ results[k]["behance_id"] = page_cards[i].pid
    /\ pc = "done"
          => /\ \A i \in 1..Len(all_projects) :
                   LET row == FindProject(projects, all_projects[i].pid) IN
                   row # 0 /\ projects[row].last_seen = run
             /\ \A j \in 1..Len(all_authors) :
                   LET row == FindAuthor(authors, all_authors[j]["username"]) IN
                   row # 0 /\ authors[row].last_seen = run

\* a finished run in which a card was discarded before a collected one, a
\* project's details raised before another project's were fetched, and an
\* author's profile raised before another author was handled
C5_Witness ==
    /\ pc = "done"
    /\ Len(all_search_data) = 1
    /\ PositionsIn(all_search_data[1].results) = <<1, 3>>
    /\ \E i \in 1..Len(all_projects) :
          i < Len(all_projects) /\ DetailRaised(all_projects[i])
    /\ \E j \in 1..Len(all_authors) :
          j < Len(all_authors) /\ ProfileRaised(all_authors[j])

\* C6: a finished run has written no projects row for a project whose detail
\* scrape raised, and no authors row and no author_snapshots row for an
\* author whose profile scrape raised.  Violated: steps 4 and 5 save every
\* item, failed or not.
C6_FailedItemWritesNoRow ==
    pc = "done"
       => /\ \A i \in 1..Len(all_projects) :
                DetailRaised(all_projects[i])
                   => LET row == FindProject(projects, all_projects[i].pid) IN
                      row = 0 \/ projects[row].last_seen # run
          /\ \A j \in 1..Len(all_authors) :
                ProfileRaised(all_authors[j])
                   => LET uname == all_authors[j]["username"]
                          row == FindAuthor(authors, uname)
                      IN /\ row = 0 \/ authors[row].last_seen # run
                         /\ AuthorRowsOfRun(author_snapshots, authors,
                                            snapshots, uname, run) = {}

\* C7: when a run ends, every author it observed has exactly one
\* author_snapshots row on the snapshots of that run.  Violated: a run a
\* navigation timeout aborts after step 1 leaves its observed authors
\* without a row.
C7_OneSnapshotRowPerObservedAuthor ==
    [][(pc \in Running /\ pc' \in {"done", Aborted})
          => \A i \in 1..Len(all_authors) :
                Cardinality(AuthorRowsOfRun(author_snapshots', authors',
                                            snapshots',
                                            all_authors[i]["username"],
                                            run)) = 1]_vars

\* the first listing page showed three parseable cards and the loop ended
\* at the second iteration for want of a Next link
ScenarioA ==
    /\ pc = "count"
    /\ queries = PrimaryQueries
    /\ page_num = 1
    /\ last_nav = <<>>
    /\ Len(page_cards) = 3
    /\ \A i \in 1..3 : page_cards[i].kind = "ok"

\* C8: a run over one query whose first page shows three parseable cards and
\* whose second iteration finds no Next link collects three records at
\* positions 1, 2, 3; the run that finishes with these records has created
\* exactly one snapshot, with total_collected = 3 and exactly three
\* search_results rows, at positions 1, 2 and 3.
C8_ScenarioA ==
    /\ ScenarioA => PositionsIn(results) = <<1, 2, 3>>
    /\ (/\ pc = "done"
        /\ Len(all_search_data) = 1
        /\ PositionsIn(all_search_data[1].results) = <<1, 2, 3>>)
          => /\ Cardinality(RunSnapshots) = 1
             /\ \A s \in RunSnapshots :
                   /\ snapshots[s].total_collected = 3
                   /\ Cardinality(RowsOf(s)) = 3
                   /\ PositionsOf(s) = {1, 2, 3}

C8_Witness ==
    /\ pc = "done"
    /\ Len(all_search_data) = 1
    /\ PositionsIn(all_search_data[1].results) = <<1, 2, 3>>
    /\ Len(search_results) = 3

\* C10: a finished run has stored is_my_project = 1 for every project of the
\* portfolio listing, also for one seeded from a query result; and a stored
\* is_my_project = 1 stays 1 through every later step of every run.
C10_MineMarkedAndSticky ==
    /\ [](pc = "done"
            => \A k \in 1..Len(my_projects) :
                  LET row == FindProject(projects, my_projects[k]["behance_id"])
                  IN row # 0 /\ projects[row].f["is_my_project"] = <<1>>)
    /\ [][\A i \in 1..Len(projects) :
             projects[i].f["is_my_project"] = <<1>>
                => projects'[i].f["is_my_project"] = <<1>>]_vars

\* a later run, finished, whose portfolio scrape listed nothing and which saw
\* the operator's project in a query result only; the row an earlier run
\* stored still says 1
C10_Witness ==
    /\ pc = "done"
    /\ run = 2
    /\ my_projects = <<>>
    /\ \E i \in 1..Len(all_projects) :
          /\ all_projects[i].pid = "p2"
          /\ all_projects[i].q >= 1
          /\ LET row == FindProject(projects, "p2") IN
             /\ row # 0
             /\ projects[row].first_seen = 1
             /\ projects[row].last_seen = 2
             /\ projects[row].f["is_my_project"] = <<1>>

\* ---- C11 ----

\* the places <<query index, result index>> of all_search_data whose record
\* has the value val under key
Occurrences(key, val) ==
    { qk \in (1..Len(all_search_data)) \X (1..PROJECTS_PER_QUERY) :
        /\ qk[2] <= Len(all_search_data[qk[1]].results)
        /\ all_search_data[qk[1]].results[qk[2]][key] = val }

\* the first of a set of places in discovery order
FirstPlace(S) ==
    CHOOSE a \in S : \A b \in S : a[1] < b[1] \/ (a[1] = b[1] /\ a[2] <= b[2])

\* the keys a listing card or a portfolio link seeds a record with
SeedKeys == {"behance_id", "title", "url"}

\* C11: within a run, all_projects holds each project id once and its record
\* is the first observation in discovery order (the queries in order, then
\* the portfolio); all_authors holds each handle once, seeded with the name
\* of the first card that showed it; a successful detail or profile scrape
\* is merged on top: its values are in the record and the seed's other keys
\* are kept.
C11_FirstSeedThenMerge ==
    /\ \A i, j \in 1..Len(all_projects) :
          all_projects[i].pid = all_projects[j].pid => i = j
    /\ \A i \in 1..Len(all_projects) :
          LET ref == all_projects[i]
              occ == Occurrences("behance_id", ref.pid)
              rec == Deref(ref)
          IN /\ rec["behance_id"] = ref.pid
             /\ occ # {} => (ref.q >= 1 /\ <<ref.q, ref.k>> = FirstPlace(occ))
             /\ occ = {} => ref.q = 0
             /\ SeedKeys \subseteq DOMAIN rec
             /\ ref.q >= 1 => rec["position"] = ref.k \/ rec["position"] > ref.k
             /\ ~DetailRaised(ref)
                   => \A key \in DOMAIN DetailsOf(ref.pid) :
                         key \in DOMAIN rec /\ rec[key] = DetailsOf(ref.pid)[key]
    /\ \A q \in 1..Len(all_search_data) :
          \A k \in 1..Len(all_search_data[q].results) :
             HasProject(all_projects, all_search_data[q].results[k]["behance_id"])
    /\ \A i, j \in 1..Len(all_authors) :
          all_authors[i]["username"] = all_authors[j]["username"] => i = j
    /\ \A j \in 1..Len(all_authors) :
          LET adata == all_authors[j]
              uname == adata["username"]
              occ == Occurrences("author_username", <<uname>>)
          IN /\ (ProfileRaised(adata) /\ occ # {})
                   => LET first == FirstPlace(occ) IN
                      adata["display_name"] =
                         all_search_data[first[1]].results[first[2]]["author_name"]
             /\ ~ProfileRaised(adata)
                   => \A key \in DOMAIN ProfileOf(uname) :
                         key \in DOMAIN adata /\ adata[key] = ProfileOf(uname)[key]

\* a finished run that saw the same project on two cards, and the same
\* author on two cards that show different names, and whose detail and
\* profile scrapes of them succeeded
C11_Witness ==
    /\ pc = "done"
    /\ \E i \in 1..Len(all_projects) :
          /\ Cardinality(Occurrences("behance_id", all_projects[i].pid)) >= 2
          /\ ~DetailRaised(all_projects[i])
    /\ \E j \in 1..Len(all_authors) :
          /\ Cardinality(Occurrences("author_username",
                                     <<all_authors[j]["username"]>>)) >= 2
          /\ ~ProfileRaised(all_authors[j])

\* ---- C12 ----

\* every row of old is still in new, at its place and unchanged
IsPrefix(old, new) ==
    /\ Len(old) <= Len(new)
    /\ \A i \in 1..Len(old) : new[i] = old[i]

\* C12 as stated: no step changes or removes a row of snapshots,
\* search_results, author_snapshots or project_tags.  Violated:
\* update_snapshot_count overwrites total_collected of the snapshot row.
C12_AppendOnly ==
    [][/\ IsPrefix(snapshots, snapshots')
       /\ IsPrefix(search_results, search_results')
       /\ IsPrefix(author_snapshots, author_snapshots')
       /\ IsPrefix(project_tags, project_tags')]_vars

\* C12, amended: search_results, author_snapshots and project_tags are
\* append-only; no snapshots row is removed, its query and timestamp never
\* change, and its total_collected is changed only by the run that created
\* it, for the snapshot whose listing it has just scraped, from the 0 it was
\* inserted with.
C12_AppendOnlyButCount ==
    [][/\ IsPrefix(search_results, search_results')
       /\ IsPrefix(author_snapshots, author_snapshots')
       /\ IsPrefix(project_tags, project_tags')
       /\ Len(snapshots) <= Len(snapshots')
       /\ \A i \in 1..Len(snapshots) :
             /\ snapshots'[i].query = snapshots[i].query
             /\ snapshots'[i].timestamp = snapshots[i].timestamp
             /\ snapshots'[i].total_collected # snapshots[i].total_collected
                   => /\ snapshots[i].timestamp = run
                      /\ snapshots[i].total_collected = 0
                      /\ i = snapshot_id
                      /\ pc = "count"]_vars

\* a second run has finished and stored rows of its own in all four tables
\* next to the first run's
C12_Witness ==
    /\ pc = "done"
    /\ run = 2
    /\ \E i, j \in 1..Len(snapshots) :
          /\ snapshots[i].timestamp = 1 /\ snapshots[i].total_collected = 1
          /\ snapshots[j].timestamp = 2 /\ snapshots[j].total_collected = 0
          /\ snapshots[i].query = snapshots[j].query
    /\ \E j \in 1..Len(snapshots) :
          /\ snapshots[j].timestamp = 2
          /\ RowsOf(j) # {}
    /\ Len(author_snapshots) >= 2
    /\ Len(project_tags) >= 1

\* ---- C13 ----

\* C13: whatever the interleaving of the SELECT and the INSERT / UPDATE of
\* two runs that observe the same project and the same author, no upsert
\* fails, the store holds one row for the project and one for the author,
\* and the project row is the coalesce of the observations in commit order.
\* Violated: both runs select no row, one inserts, and the INSERT of the
\* other raises IntegrityError.
C13_RaceLastCoalesceWins ==
    /\ \A p \in DOMAIN conns : conns[p].pc # "failed"
    /\ \A i, j \in 1..Len(projects) :
          projects[i].behance_id = projects[j].behance_id => i = j
    /\ \A i, j \in 1..Len(authors) :
          authors[i].username = authors[j].username => i = j
    /\ ProjectsAreCoalesce

\* ---- C14 ----

\* C14: over any sequence of runs the projects table holds one row per
\* behance_id at most and the authors table one row per username at most;
\* the id an upsert returns is the id of that row; and a row keeps its
\* external id for ever, so that every call for an external id returns the
\* same database id.
C14_IdentityStable ==
    /\ [](/\ \A i, j \in 1..Len(projects) :
                projects[i].behance_id = projects[j].behance_id => i = j
          /\ \A i, j \in 1..Len(authors) :
                authors[i].username = authors[j].username => i = j
          /\ \A pid \in DOMAIN project_db_ids :
                /\ project_db_ids[pid] \in 1..Len(projects)
                /\ projects[project_db_ids[pid]].behance_id = pid
          /\ \A uname \in DOMAIN author_db_ids :
                /\ author_db_ids[uname] \in 1..Len(authors)
                /\ authors[author_db_ids[uname]].username = uname)
    /\ [][/\ IsPrefix([i \in 1..Len(projects) |-> projects[i].behance_id],
                      [i \in 1..Len(projects') |-> projects'[i].behance_id])
          /\ IsPrefix([i \in 1..Len(authors) |-> authors[i].username],
                      [i \in 1..Len(authors') |-> authors'[i].username])]_vars

\* the second run has saved again a project and an author the first run
\* stored, and got the ids of the rows of the first run
C14_Witness ==
    /\ pc = "done"
    /\ run = 2
    /\ \E pid \in DOMAIN project_db_ids :
          /\ projects[project_db_ids[pid]].first_seen = 1
          /\ projects[project_db_ids[pid]].last_seen = 2
    /\ \E uname \in DOMAIN author_db_ids :
          /\ authors[author_db_ids[uname]].first_seen = 1
          /\ authors[author_db_ids[uname]].last_seen = 2
    /\ Len(projects) = 2

\* ---- C15 ----

\* the tracked_snapshots rows the current run wrote for an id
TrackedRowsOfRun(bid) ==
    { k \in 1..Len(tracked_snapshots) :
        /\ tracked_snapshots[k].timestamp = run
        /\ tracked_snapshots[k].behance_id = bid }

\* a position field: the item's (first) position under the query, null when
\* the query was not crawled or its results do not hold the item
PositionFieldOk(val, query, bid) ==
    LET ps == { all_search_data[qk[1]].results[qk[2]]["position"] :
                  qk \in { y \in Occurrences("behance_id", bid) :
                              all_search_data[y[1]].query = query } }
    IN IF ps = {} THEN val = Null
       ELSE val # Null /\ val[1] \in ps /\ \A x \in ps : val[1] <= x

\* exactly one tracked_snapshots row of this run for every entry of the
\* allowlist that has an id, none for an entry without id; each position
\* field of the row is the item's position in this run's results for its
\* query, or null
TrackedRowsOk ==
    /\ \A i \in 1..Len(world.tracked) :
          LET bid == world.tracked[i]["behance_id"] IN
          IF bid = "" THEN TrackedRowsOfRun(bid) = {}
          ELSE /\ Cardinality(TrackedRowsOfRun(bid)) = 1
               /\ \A k \in TrackedRowsOfRun(bid) :
                     /\ PositionFieldOk(
                           tracked_snapshots[k].position_infografika,
                           InfografikaQuery, bid)
                     /\ PositionFieldOk(
                           tracked_snapshots[k].position_design_cards,
                           DesignCardsQuery, bid)
    /\ Cardinality({ k \in 1..Len(tracked_snapshots) :
                        tracked_snapshots[k].timestamp = run })
          = Cardinality({ i \in 1..Len(world.tracked) :
                             world.tracked[i]["behance_id"] # "" })

\* C15: a run that has ended, completed or not, has appended exactly one
\* tracked_snapshots row for every entry of the allowlist that has an id,
\* also when the page of the item could not be fetched, with position fields
\* that are the item's position in this run's results for the named query,
\* or null.  Violated: a run aborted by a navigation timeout before step 7
\* appends no row.
C15_EveryRunTracks ==
    pc \in {"done", Aborted} => TrackedRowsOk

\* the part of C15 that holds: a run that reaches step 7 and completes it
C15_OneTrackedRowPerEntry ==
    pc = "done" => TrackedRowsOk

\* a finished run: the page of one tracked project could not be fetched and
\* its row holds its position, 2, behind a discarded card; the other
\* tracked project is not in the results and its row holds no position
C15_Witness ==
    /\ pc = "done"
    /\ \E k \in TrackedRowsOfRun("p1") :
          /\ tracked_snapshots[k].views = 0
          /\ tracked_snapshots[k].position_infografika = <<2>>
          /\ tracked_snapshots[k].position_design_cards = Null
    /\ \E k \in TrackedRowsOfRun("p2") :
          /\ tracked_snapshots[k].views = 9
          /\ tracked_snapshots[k].position_infografika = Null
    /\ PositionsIn(all_search_data[1].results) = <<2>>

\* ---- C16 ----

\* the project at index i of all_projects is the one step 3 has just handled
JustScraped(i) ==
    \/ pc = "details" /\ idx = i + 1
    \/ pc = "author_scrape" /\ idx = 1 /\ i = Len(all_projects)

\* the page of the project handled last had loaded (at networkidle or at
\* the retry), so that a failure of its scrape is a failure of an extraction
PageHadLoaded == last_nav \in {NetworkIdleOk, RetryOk}

\* C16: when the page of a project has loaded, the fields extracted from it
\* are merged into the project's record also when the extraction of one
\* field (a content block, a link) fails: the tags, which are extracted
\* before any content block or link is read, are in the record.  Violated:
\* the exception leaves scrape_project_details and no field is merged.
C16_FieldFailureKeepsOtherFields ==
    \A i \in 1..Len(all_projects) :
       (JustScraped(i) /\ PageHadLoaded)
          => /\ "tags" \in DOMAIN Deref(all_projects[i])
             /\ Deref(all_projects[i])["tags"] = DetailsOf(all_projects[i].pid)["tags"]

\* ---- C17 ----

\* the text of the call, "" for None
ParsedText == IF pure_call.arg = Null THEN <<>> ELSE pure_call.arg[1]

\* C17: a call of _parse_number never raises; whatever the input, None, the
\* empty string or any string, it returns an integer.  Violated: the
\* numeric part before a magnitude letter is handed to float(), which
\* raises ValueError for several dots or a lone dot.
C17_ParseNumberNeverRaises ==
    (pure_call.fn = "_parse_number" /\ pure_call.state # "pending")
       => /\ pure_call.state = "returned"
          /\ pure_call.out[1] \in Nat

\* ---- C18 ----

ThousandsSeparators == {",", NBSP, " "}

\* a decimal value: digits with at most one dot
IsDecimal(g) ==
    /\ g # <<>>
    /\ \A i \in 1..Len(g) : IsDigit(g[i]) \/ g[i] = "."
    /\ ~FloatRaises(g)

\* the integer that the digits of t spell
DigitsValue(t) == IntOfDigits(SelectSeq(t, IsDigit))

\* the decimal g times c, c a power of ten that makes the product whole
DecimalTimes(g, c) == (DigitsValue(g) * c) \div Pow10(FractionDigits(g))

\* text is a decimal value followed by one of the letters: the value times c
MagnitudeOk(text, letters, c) ==
    (/\ Len(text) >= 2
     /\ text[Len(text)] \in letters
     /\ IsDecimal(SubSeq(text, 1, Len(text) - 1)))
       => pure_call.out[1] = DecimalTimes(SubSeq(text, 1, Len(text) - 1), c)

\* text is digit groups with thousands separators between them: the digits
SeparatorsOk(text) ==
    (/\ text # <<>>
     /\ \A i \in 1..Len(text) :
           IsDigit(text[i]) \/ text[i] \in ThousandsSeparators
     /\ IsDigit(text[1]) /\ IsDigit(text[Len(text)]))
       => pure_call.out[1] = DigitsValue(text)

\* text holds no magnitude letter: the digits only
DigitsOnlyOk(text) ==
    (\A i \in 1..Len(text) : text[i] \notin KiloChars \cup MegaChars)
       => pure_call.out[1] = DigitsValue(text)

\* the four examples
ExampleOk(text, n) == ParsedText = text => pure_call.out[1] = n

\* C18: _parse_number strips thousands separators, multiplies a decimal
\* value followed by k, K or the Cyrillic ka by 1000 and one followed by m, M
\* or the Cyrillic em by 1000000, and otherwise keeps the digits only.
\* Violated: int() truncates the binary64 product, which for some decimals
\* lies just below the whole number.
C18_ParseNumberValue ==
    (pure_call.fn = "_parse_number" /\ pure_call.state = "returned")
       => /\ MagnitudeOk(ParsedText, KiloChars, 1000)
          /\ MagnitudeOk(ParsedText, MegaChars, 1000000)
          /\ SeparatorsOk(ParsedText)
          /\ DigitsOnlyOk(ParsedText)
          /\ ExampleOk(<<"2", " ", "0", "7", "5">>, 2075)
          /\ ExampleOk(<<"2", ",", "0", "7", "5">>, 2075)
          /\ ExampleOk(<<"1", ".", "2", "K">>, 1200)
          /\ ExampleOk(<<"2", "cyr_M">>, 2000000)

\* the part of C18 that holds: separators, digits only and the examples
C18_SeparatorsAndExamples ==
    (pure_call.fn = "_parse_number" /\ pure_call.state = "returned")
       => /\ SeparatorsOk(ParsedText)
          /\ DigitsOnlyOk(ParsedText)
          /\ ExampleOk(<<"2", " ", "0", "7", "5">>, 2075)
          /\ ExampleOk(<<"2", ",", "0", "7", "5">>, 2075)
          /\ ExampleOk(<<"1", ".", "2", "K">>, 1200)
          /\ ExampleOk(<<"2", "cyr_M">>, 2000000)

\* ---- C19 ----

\* the weekday by Zeller's congruence, 1 = Monday .. 7 = Sunday
ZellerIsoWeekday(y, m, d) ==
    LET mm == IF m < 3 THEN m + 12 ELSE m
        yy == IF m < 3 THEN y - 1 ELSE y
        h == (d + ((13 * (mm + 1)) \div 5) + (yy % 100) + ((yy % 100) \div 4)
                + ((yy \div 100) \div 4) + 5 * (yy \div 100)) % 7
    IN ((h + 5) % 7) + 1

\* a date of the calendar
ValidCalendarDate(a) == a.m \in 1..12 /\ a.d >= 1 /\ a.d <= DaysInMonth(a.y, a.m)

\* C19: for every valid calendar date the English sentence (month name, day
\* with ordinal suffix, year) and the Russian sentence (day, month in the
\* genitive, year, particle) are parsed to the same ISO date, that of the
\* date, and the same ISO weekday, that of the date, with the hour unset.
C19_TemplatesAgree ==
    (pure_call.fn = "_parse_behance_date" /\ ValidCalendarDate(pure_call.arg))
       => LET a == pure_call.arg
              want == [date |-> <<strftime(a.y, a.m, a.d)>>,
                       dow |-> <<ZellerIsoWeekday(a.y, a.m, a.d)>>,
                       hour |-> Null]
          IN /\ pure_call.out.en \in {Null, <<want>>}
             /\ pure_call.out.ru \in {Null, <<want>>}
             /\ pure_call.state = "returned" => pure_call.out.en = pure_call.out.ru

\* both sentences of 29 February 2024, a Thursday, have been parsed, the
\* English one with the suffix th
C19_Witness ==
    /\ pure_call.fn = "_parse_behance_date"
    /\ pure_call.state = "returned"
    /\ pure_call.arg = [y |-> 2024, m |-> 2, d |-> 29]
    /\ pure_call.out.en = pure_call.out.ru
    /\ pure_call.out.ru[1].date =
          <<<<"2", "0", "2", "4", "-", "0", "2", "-", "2", "9">>>>
    /\ pure_call.out.ru[1].dow = <<4>>
    /\ pure_call.out.ru[1].hour = Null

\* ---- C20 ----

\* the goto attempts of the step that is taken, none when the step does
\* not navigate
GotosOfStep ==
    IF \/ pc \in {"listing", "portfolio", "details", "author_scrape"}
       \/ (pc = "track" /\ world.tracked[idx]["behance_id"] # "")
    THEN last_nav'
    ELSE <<>>

\* C20: every goto of a run but the first starts after a delay: the event
\* before it is a sleep, not another goto.  Violated: the retry at
\* domcontentloaded follows the goto that timed out at once, and so does the
\* goto of the next item after a navigation that raised.
C20_DelayBetweenNavigations ==
    [][LET before == IF rested THEN <<"sleep">> ELSE <<"goto">>
           events == before \o NavEvents(GotosOfStep)
       IN \A i \in 2..Len(events) :
             events[i] = "goto" => events[i - 1] = "sleep"]_vars

\* ---- C21 ----

\* the step navigates to a listing page
ListingGoto == pc = "listing" /\ last_nav' # <<>>

\* the step finds no next link, or one without target
NoNextLink == pc = "listing" /\ last_nav' = <<>> /\ pc' = AfterListing

\* C21: a call of scrape_search_results navigates to listing page n + 1 only
\* while n < PAGES_PER_QUERY, one page per iteration, so to at most
\* PAGES_PER_QUERY pages; when no next link with a target is found the loop
\* ends with the records gathered so far, and the records the loop ended
\* with are the ones handed to run_full_scrape.
C21_PageCapAndStop ==
    [][/\ ListingGoto =>
             /\ page_num + 1 <= PAGES_PER_QUERY
             /\ pc' = "listing" => page_num' = page_num + 1
       /\ NoNextLink => results' = results /\ page_num' = page_num
       /\ (pc = "listing" /\ pc' \in {"listing", AfterListing})
             => IsPrefix(results, results')
       /\ (pc = AfterListing /\ pc' \in {"query", "portfolio"}) =>
             /\ Len(all_search_data') = Len(all_search_data) + 1
             /\ LET kept == all_search_data'[Len(all_search_data')].results
                IN /\ Len(kept) = Len(results)
                   /\ \A k \in 1..Len(kept) :
                         /\ kept[k]["behance_id"] = results[k]["behance_id"]
                         /\ kept[k]["position"] = results[k]["position"]]_vars

\* no next link was found after the first page, and the loop has ended
\* with the record of that page
C21_Witness ==
    /\ pc = AfterListing
    /\ last_nav = <<>>
    /\ page_num = 1
    /\ Len(results) = 1
    /\ results[1]["position"] = 1

\* ------------------------------------------------------------------------
\* Claims over SpecProfile
\* ------------------------------------------------------------------------

\* ---- C22 ----

\* the page of the call, and the dict the call returned
ProfilePage == pure_call.arg

ProfileReturned ==
    pure_call.fn = "scrape_author_profile" /\ pure_call.state = "returned"

\* the numbers the analytics links of the page show for a metric
AnalyticsValues(page, key) ==
    { _parse_number(<<page.links[i].text>>).out[1] :
         i \in { j \in 1..Len(page.links) :
                    /\ ParentKey(page.links[j].parent) = <<key>>
                    /\ _parse_number(<<page.links[j].text>>).out[1] > 0 } }

\* C22: in the dict a call returned, a metric the table scan left unset has
\* the value of its anchor-link fallback whenever the page has that link:
\* total_views and total_appreciations a positive number of an analytics
\* link around the metric, followers and following the number of their
\* link.  Violated: the analytics links are read only when total_views is
\* unset, so appreciations the table did not give stay unset when it gave
\* views.
C22_UnsetMetricRetried ==
    ProfileReturned =>
        LET page == ProfilePage
            table == ScanTable(page.rows, 1, <<>>)
            stats == pure_call.out[1]["stats"]
        IN /\ \A key \in {"total_views", "total_appreciations"} :
                 (Unset(table, key) /\ AnalyticsValues(page, key) # {})
                    => /\ key \in DOMAIN stats
                       /\ stats[key] \in AnalyticsValues(page, key)
           /\ \A key \in {"followers", "following"} :
                 (Unset(table, key) /\ page[key] # Null)
                    => /\ key \in DOMAIN stats
                       /\ stats[key] = _parse_number(page[key]).out[1]

\* the fallbacks as the code runs them: the one of total_appreciations only
\* on a page whose table gave no views
C22_RetriedWhenViewsUnset ==
    ProfileReturned =>
        LET page == ProfilePage
            table == ScanTable(page.rows, 1, <<>>)
            stats == pure_call.out[1]["stats"]
        IN /\ (Unset(table, "total_views")
                  /\ AnalyticsValues(page, "total_views") # {})
                 => /\ "total_views" \in DOMAIN stats
                    /\ stats["total_views"] \in AnalyticsValues(page, "total_views")
           /\ (Unset(table, "total_views") /\ Unset(table, "total_appreciations")
                  /\ AnalyticsValues(page, "total_appreciations") # {})
                 => /\ "total_appreciations" \in DOMAIN stats
                    /\ stats["total_appreciations"]
                          \in AnalyticsValues(page, "total_appreciations")
           /\ \A key \in {"followers", "following"} :
                 (Unset(table, key) /\ page[key] # Null)
                    => /\ key \in DOMAIN stats
                       /\ stats[key] = _parse_number(page[key]).out[1]

\* ---- C23 ----

\* the weights of the eight attributes
AttributeWeights ==
    [name |-> 15, location |-> 10, bio |-> 20, banner |-> 10, website |-> 10,
     hire |-> 10, views |-> 15, services |-> 10]

\* the attributes present in a returned dict
AttributesPresent(data) ==
    { a \in DOMAIN AttributeWeights :
        \/ a = "name" /\ "display_name" \in DOMAIN data
                      /\ data["display_name"][1] # <<>>
        \/ a = "location" /\ "location" \in DOMAIN data
                          /\ data["location"][1] # <<>>
        \/ a = "bio" /\ "bio_text" \in DOMAIN data
        \/ a = "banner" /\ data["has_banner"] = <<1>>
        \/ a = "website" /\ data["has_website_link"] = <<1>>
        \/ a = "hire" /\ "hire_status" \in DOMAIN data
                      /\ data["hire_status"][1] # <<>>
        \/ a = "views" /\ "total_views" \in DOMAIN data["stats"]
                       /\ data["stats"]["total_views"] > 0
        \/ a = "services" /\ data["has_services"] = <<1>> }

RECURSIVE WeightSum(_)
WeightSum(S) ==
    IF S = {} THEN 0
    ELSE LET a == CHOOSE x \in S : TRUE
         IN AttributeWeights[a] + WeightSum(S \ {a})

\* C23: profile_completeness of a returned dict is an integer in 0..100, the
\* sum of the weights of the attributes present, which no cap has changed,
\* and it is 100 exactly when all eight attributes are present.
C23_CompletenessIsWeightedSum ==
    ProfileReturned =>
        LET data == pure_call.out[1]
            score == data["profile_completeness"][1]
            present == AttributesPresent(data)
        IN /\ score \in 0..100
           /\ score = WeightSum(present)
           /\ WeightSum(DOMAIN AttributeWeights) <= 100
           /\ score = 100 <=> present = DOMAIN AttributeWeights

\* a page with all eight attributes has been scraped
C23_Witness ==
    /\ ProfileReturned
    /\ AttributesPresent(pure_call.out[1]) = DOMAIN AttributeWeights
    /\ pure_call.out[1]["profile_completeness"] = <<100>>
    /\ pure_call.arg.banner /\ pure_call.arg.web /\ pure_call.arg.services

\* ------------------------------------------------------------------------
\* Claims over the store of a run, continued
\* ------------------------------------------------------------------------

\* ---- C24 ----

\* every reference of a row points at a row that exists
ReferencesResolve ==
    /\ \A i \in 1..Len(search_results) :
          /\ search_results[i].snapshot_id \in 1..Len(snapshots)
          /\ search_results[i].project_id \in 1..Len(projects)
    /\ \A i \in 1..Len(author_snapshots) :
          /\ author_snapshots[i].author_id \in 1..Len(authors)
          /\ author_snapshots[i].snapshot_id \in 1..Len(snapshots)

\* what the run in progress has written so far
AuthorWritten == \E i \in 1..Len(authors) : authors[i].last_seen = run

ProjectWritten == \E i \in 1..Len(projects) : projects[i].last_seen = run

ResultWritten ==
    \E i \in 1..Len(search_results) :
       snapshots[search_results[i].snapshot_id].timestamp = run

\* the order in which a step of a run writes, and the snapshot a new
\* author_snapshots row and a new search_results row reference
WritesInOrder ==
    /\ Len(snapshots') > Len(snapshots)
          => ~AuthorWritten /\ ~ProjectWritten /\ ~ResultWritten
    /\ authors' # authors => ~ProjectWritten /\ ~ResultWritten
    /\ projects' # projects => ~ResultWritten
    /\ Len(author_snapshots') > Len(author_snapshots) =>
          LET row == author_snapshots'[Len(author_snapshots')]
          IN /\ row.author_id \in 1..Len(authors)
             /\ row.snapshot_id \in 1..Len(snapshots)
             /\ snapshots[row.snapshot_id].timestamp = run
    /\ Len(search_results') > Len(search_results) =>
          LET row == search_results'[Len(search_results')]
          IN /\ row.project_id \in 1..Len(projects)
             /\ row.snapshot_id \in 1..Len(snapshots)
             /\ snapshots[row.snapshot_id].timestamp = run

\* C24: in every state of the store, between the steps of a run as well,
\* every search_results row references a snapshots row and a projects row
\* that exist and every author_snapshots row an authors row and a snapshots
\* row that exist, the snapshots row being one of the run that wrote the
\* row; a run creates its snapshots before it writes an author, its authors
\* before its projects and its projects before its search results.
C24_ReferencesResolve ==
    []ReferencesResolve /\ [][WritesInOrder]_vars

\* a second run has written an author snapshot and a search result, on the
\* rows of its own snapshot
C24_Witness ==
    /\ run = 2
    /\ Len(snapshots) >= 2
    /\ \E i \in 1..Len(author_snapshots) :
          snapshots[author_snapshots[i].snapshot_id].timestamp = 2
    /\ \E i \in 1..Len(search_results) :
          snapshots[search_results[i].snapshot_id].timestamp = 2

\* ---- C25 ----

\* the search_results rows of a snapshot, in insertion order
ResultRowsOf(snap_id) ==
    SelectSeq(search_results, LAMBDA r : r.snapshot_id = snap_id)

\* C25: when a run has completed, every snapshot it created has as many
\* search_results rows as its total_collected says, one for each record
\* scrape_search_results returned for the query, in order, with the
\* record's position and project.
C25_EveryResultPersisted ==
    pc = "done" =>
        /\ \A i \in 1..Len(snapshots) :
              snapshots[i].timestamp = run
                 => Len(ResultRowsOf(i)) = snapshots[i].total_collected
        /\ \A q \in 1..Len(all_search_data) :
              LET res == all_search_data[q].results
                  rows == ResultRowsOf(all_search_data[q].snapshot_id)
              IN /\ snapshots[all_search_data[q].snapshot_id].timestamp = run
                 /\ Len(rows) = Len(res)
                 /\ \A k \in 1..Len(res) :
                       /\ rows[k].position = res[k]["position"]
                       /\ projects[rows[k].project_id].behance_id
                             = res[k]["behance_id"]

\* a run has completed in which the listing of the first query showed a
\* project twice and the listing of the second query showed it again
C25_Witness ==
    /\ pc = "done"
    /\ Len(all_search_data) = 2
    /\ Len(all_search_data[1].results) = 2
    /\ all_search_data[1].results[1]["behance_id"] = "p1"
    /\ all_search_data[1].results[2]["behance_id"] = "p1"
    /\ Len(all_search_data[2].results) = 1
    /\ all_search_data[2].results[1]["behance_id"] = "p1"
    /\ Len(search_results) = 3
    /\ snapshots[1].total_collected = 2

\* ---- C26 ----

\* the featured flag of result k of query q, as the run holds it
FlagOf(asd, q, k) == asd[q].results[k]["is_featured"]

\* a step of step 3 (project details) leaves the flag of every result record
\* as scrape_search_results extracted it from the card
DetailKeepsFlags ==
    (pc = "details" /\ pc' \in {"details", "author_scrape"}) =>
        \A q \in 1..Len(all_search_data) :
           \A k \in 1..Len(all_search_data[q].results) :
              FlagOf(all_search_data', q, k) = FlagOf(all_search_data, q, k)

\* a search_results row written by step 6 has the flag of its record
RowTakesFlag ==
    (pc = "save_results" /\ Len(search_results') > Len(search_results)) =>
        search_results'[Len(search_results')].is_featured
            = FlagOf(all_search_data, idx, sk)[1]

\* C26: the flag a search_results row stores is the one extracted from the
\* listing card of that result: step 6 stores the flag of the result record,
\* and merging the details of a project into its aggregated record changes
\* the flag of no result record.  Violated: the aggregated record of a
\* project is the result record that seeded it, so the is_featured of the
\* detail page replaces the one of the card.
C26_RowKeepsCardFlags ==
    [][DetailKeepsFlags /\ RowTakesFlag]_vars

\* the flags of the result records that did not seed their project are left
\* alone
C26_OtherRecordsKeepFlags ==
    [][(pc = "details" /\ pc' \in {"details", "author_scrape"}) =>
          \A q \in 1..Len(all_search_data) :
             \A k \in 1..Len(all_search_data[q].results) :
                (\A i \in 1..Len(all_projects) :
                    all_projects[i].q # q \/ all_projects[i].k # k)
                   => FlagOf(all_search_data', q, k) = FlagOf(all_search_data, q, k)]_vars

\* ---- C27 ----

\* the records of the call in progress have increasing positions within
\* 1..max_projects
PositionsIncrease ==
    pc \in {"listing", AfterListing} =>
        /\ Len(results) <= PROJECTS_PER_QUERY
        /\ \A k \in 1..Len(results) :
              results[k]["position"] \in 1..PROJECTS_PER_QUERY
        /\ \A j, k \in 1..Len(results) :
              j < k => results[j]["position"] < results[k]["position"]

\* the records a page adds are those of its parseable cards, the i-th card of
\* the page holding position + i whether or not the cards before it were
\* discarded
CardsTakeTheirPosition ==
    (pc = "listing" /\ pc' \in {"listing", AfterListing} /\ last_nav' # <<>>
        /\ page_cards' # <<>>) =>
        LET new == SubSeq(results', Len(results) + 1, Len(results'))
            kept == { i \in 1..Len(page_cards') :
                        /\ page_cards'[i].kind = "ok"
                        /\ position + i <= PROJECTS_PER_QUERY }
        IN /\ Len(new) = Cardinality(kept)
           /\ \A j \in 1..Len(new) :
                 /\ new[j]["position"] - position \in kept
                 /\ new[j]["behance_id"]
                       = page_cards'[new[j]["position"] - position].pid

\* C27: within one call of scrape_search_results the positions of the
\* records are strictly increasing in listing order, hence distinct, and lie
\* in 1..max_projects, there are at most max_projects records, and every
\* card holds the position of its place in the listing: a discarded card
\* leaves a gap.
C27_PositionsOfACall ==
    []PositionsIncrease /\ [][CardsTakeTheirPosition]_vars

\* a listing whose second card was discarded and whose fifth card is beyond
\* max_projects
C27_Witness ==
    /\ pc = AfterListing
    /\ position = PROJECTS_PER_QUERY + 1
    /\ Len(results) = 3
    /\ results[1]["position"] = 1
    /\ results[2]["position"] = 3
    /\ results[3]["position"] = 4

\* ---- C28 ----

\* first_seen of a row is not after its last_seen
StampsOrdered(rows) ==
    \A i \in 1..Len(rows) : rows[i].first_seen <= rows[i].last_seen

\* a step keeps first_seen of every row there is, and stamps a row it
\* inserts with one time
StampsKept(rows, rows_after) ==
    /\ Len(rows) <= Len(rows_after)
    /\ \A i \in 1..Len(rows) : rows_after[i].first_seen = rows[i].first_seen
    /\ \A i \in (Len(rows) + 1)..Len(rows_after) :
          rows_after[i].first_seen = rows_after[i].last_seen

\* C28: first_seen of a projects or authors row is set when the row is
\* inserted and no upsert changes it, every upsert sets last_seen to its
\* time, and first_seen <= last_seen in every state.  Violated with two
\* runs at the same time: a call reads the clock before its SELECT, and the
\* UPDATE of a call that read it first stamps a row another call inserted
\* later.
C28_FirstSeenNotAfterLastSeen ==
    /\ [](StampsOrdered(projects) /\ StampsOrdered(authors))
    /\ [][StampsKept(projects, projects') /\ StampsKept(authors, authors')]_vars

\* the same with one call at a time: each call stamps the row it writes with
\* the time of the call
C28_StampsOfSequentialCalls ==
    /\ [](StampsOrdered(projects) /\ StampsOrdered(authors))
    /\ [][/\ StampsKept(projects, projects')
          /\ StampsKept(authors, authors')
          /\ \A i \in 1..Len(projects') :
                (i > Len(projects) \/ projects'[i] # projects[i])
                   => projects'[i].last_seen = DbNow
          /\ \A i \in 1..Len(authors') :
                (i > Len(authors) \/ authors'[i] # authors[i])
                   => authors'[i].last_seen = DbNow]_vars

\* ------------------------------------------------------------------------
\* Claims over SpecPortfolio
\* ------------------------------------------------------------------------

\* the ids scrape_my_projects has seen
SeenIds == { my_projects[k]["behance_id"] : k \in 1..Len(my_projects) }

\* the page the browser shows after page_num next links
SiteShown == world.site[(page_num % Len(world.site)) + 1]

\* a next link is followed only from a page that added an id not seen before
NextOnlyAfterNewId ==
    (pc = "portfolio" /\ pc' = "portfolio") =>
        /\ Len(my_projects') > Len(my_projects)
        /\ SiteShown.next_btn = "link"
        /\ page_num' = page_num + 1

\* so the next links followed never outnumber the ids of the portfolio
PagesBoundedByIds ==
    pc = "portfolio" =>
        /\ page_num <= Cardinality(SeenIds)
        /\ SeenIds \subseteq GalleryIds

\* C29: scrape_my_projects terminates on a portfolio of finitely many gallery
\* ids: every next link it follows comes after a page that contributed an id
\* not seen before, the number of links followed is bounded by the number of
\* ids and by nothing else, and the loop is always left
C29_PortfolioLoopEnds ==
    /\ [][NextOnlyAfterNewId]_vars
    /\ []PagesBoundedByIds
    /\ (pc = "portfolio" ~> pc # "portfolio")

\* the loop has followed as many next links as the portfolio has ids and has
\* ended on a page whose next link led to projects already seen
C29_Witness ==
    /\ pc = "details"
    /\ page_num = Cardinality(GalleryIds)
    /\ SeenIds = GalleryIds
    /\ SiteShown.next_btn = "link"
    /\ SiteShown.links # <<>>

\* ------------------------------------------------------------------------
\* C30 over SpecDb: stored texts and empty strings
\* ------------------------------------------------------------------------

\* a stored text that is neither NULL nor the empty string
NonEmptyText(v) == v # Null /\ v # <<"">>

\* the upsert calls hand over what the card parser gave: some dict carries a
\* title, and some an author name, that is the empty string
EmptyTextsObserved ==
    /\ \E d \in ProjectObservations : Get(d, "title") = <<"">>
    /\ \E d \in AuthorObservations : Get(d, "display_name") = <<"">>

\* C30: a non-empty title of a projects row, and a non-empty display name of
\* an authors row, is never replaced by the empty string: a later upsert
\* whose card carries no title text or no author text keeps the stored value
C30_StoredTextNotEmptied ==
    [][/\ \A i \in 1..Len(projects) :
             NonEmptyText(projects[i].f["title"])
                => projects'[i].f["title"] # <<"">>
       /\ \A i \in 1..Len(authors) :
             NonEmptyText(authors[i].f["display_name"])
                => authors'[i].f["display_name"] # <<"">>]_vars

\* what does hold: an upsert whose dict has no title, or no display name, or
\* None for it, keeps the stored text, and a stored text is never replaced by
\* NULL
C30_NullKeepsStoredText ==
    [][/\ \A i \in 1..Len(projects) :
             /\ NonEmptyText(projects[i].f["title"]) => projects'[i].f["title"] # Null
             /\ (/\ Len(calls') > Len(calls)
                 /\ calls'[Len(calls')].op = "upsert_project"
                 /\ Get(calls'[Len(calls')].data, "title") = Null)
                   => projects'[i].f["title"] = projects[i].f["title"]
       /\ \A i \in 1..Len(authors) :
             /\ NonEmptyText(authors[i].f["display_name"])
                   => authors'[i].f["display_name"] # Null
             /\ (/\ Len(calls') > Len(calls)
                 /\ calls'[Len(calls')].op = "upsert_author"
                 /\ Get(calls'[Len(calls')].data, "display_name") = Null)
                   => authors'[i].f["display_name"] = authors[i].f["display_name"]]_vars

====
